---- MODULE Spec2Model ----
(***************************************************************************)
(* Model of the learning-portal core: PortalConfig.get_scan_path, the      *)
(* entity model (Lesson, Course, CourseCollection and their metadata),     *)
(* the UnitScanner directory walk and its query operations.                *)
(*                                                                         *)
(* Representation.  A str is a sequence of tokens; a file or directory     *)
(* name is one token and "/" is the separator token.  A Path is a record   *)
(* [abs, parts].  An Optional[str] that is None is the sentinel NoneStr,   *)
(* an Optional object that is None is the record None.  A function of the  *)
(* code that may raise returns [raised |-> TRUE] or [raised |-> FALSE,     *)
(* value |-> v].                                                           *)
(***************************************************************************)
EXTENDS Integers, Sequences, FiniteSets, TLC

VARIABLES env, config, fs, scanner, scannedFs, raised, last

vars == <<env, config, fs, scanner, scannedFs, raised, last>>

----------------------------------------------------------------------------
(* Bounds of the model *)

\* lesson directories per course directory
MaxLessons == 2
\* length of a search query, in characters
MaxQueryLen == 2

----------------------------------------------------------------------------
(* Python values *)

None == [isNone |-> TRUE]
NoneStr == <<"<None>">>

Raise == [raised |-> TRUE]
Return(v) == [raised |-> FALSE, value |-> v]

\* truthiness of an Optional[str]: None and "" are falsy
Truthy(s) == s # NoneStr /\ s # <<>>

----------------------------------------------------------------------------
(* str and pathlib.Path *)

LowerTok(t) ==
    CASE t = "A" -> "a"
      [] t = "B" -> "b"
      [] t = "README.md" -> "readme.md"
      [] t = "collA" -> "colla"
      [] t = "courseB" -> "courseb"
      [] t = "courseD" -> "coursed"
      [] OTHER -> t

\* str.lower()
lower(s) == [i \in DOMAIN s |-> LowerTok(s[i])]

RECURSIVE SplitParts(_, _)
\* the components of a posix string: split at "/", "." components dropped
SplitParts(s, acc) ==
    IF s = <<>> THEN acc
    ELSE IF s[1] = "/" \/ s[1] = "." THEN SplitParts(Tail(s), acc)
    ELSE SplitParts(Tail(s), Append(acc, s[1]))

\* Path(s)
PathOf(s) == [abs |-> s # <<>> /\ s[1] = "/", parts |-> SplitParts(s, <<>>)]

RECURSIVE JoinParts(_)
JoinParts(parts) ==
    IF parts = <<>> THEN <<>>
    ELSE IF Len(parts) = 1 THEN <<parts[1]>>
    ELSE <<parts[1], "/">> \o JoinParts(Tail(parts))

\* Path.as_posix()
as_posix(p) ==
    IF p.parts = <<>> THEN (IF p.abs THEN <<"/">> ELSE <<".">>)
    ELSE (IF p.abs THEN <<"/">> ELSE <<>>) \o JoinParts(p.parts)

\* Path.__truediv__ with a str or Path operand: an absolute right operand wins
PathJoin(p, q) ==
    IF q.abs THEN q ELSE [abs |-> p.abs, parts |-> p.parts \o q.parts]

\* p / name for one file name
Child(p, name) == PathJoin(p, PathOf(<<name>>))

\* Path.name as a str
PathName(p) == IF p.parts = <<>> THEN <<>> ELSE <<p.parts[Len(p.parts)]>>

\* Path.parent
PathParent(p) ==
    IF p.parts = <<>> THEN p
    ELSE [abs |-> p.abs, parts |-> SubSeq(p.parts, 1, Len(p.parts) - 1)]

IsPrefix(a, b) == Len(a) <= Len(b) /\ SubSeq(b, 1, Len(a)) = a

\* Path.relative_to(base): ValueError unless base is a prefix of p
relative_to(p, base) ==
    IF p.abs = base.abs /\ IsPrefix(base.parts, p.parts)
    THEN Return([abs |-> FALSE,
                 parts |-> SubSeq(p.parts, Len(base.parts) + 1, Len(p.parts))])
    ELSE Raise

----------------------------------------------------------------------------
(* core/env_helper.py and core/config.py *)

Environments == {"development", "production"}

is_development(e) == e = "development"

\* Path.home()
Home == PathOf(<<"/", "home", "/", "user">>)

\* the unit_root_path of PortalConfig.get_default_config()
DefaultUnitRoot == <<".local", "/", "share", "/", "learning-portal", "/", "courses">>

\* an absolute unit_root_path a config file may set
AbsoluteUnitRoot == <<"/", "srv", "/", "courses">>

get_default_config == [unit_root_path |-> DefaultUnitRoot]

\* PortalConfig.get_scan_path()
get_scan_path(e, cfg) ==
    IF is_development(e)
    THEN PathOf(<<".", "/", "OER-materials">>)
    ELSE PathJoin(Home, PathOf(cfg.unit_root_path))

----------------------------------------------------------------------------
(* YAML sidecar files and the dataclass-wizard (de)serialisation *)

\* no such file
NoFile == [kind |-> "absent"]
\* a file that is not valid YAML, or whose values have the wrong type
Corrupt == [kind |-> "corrupt"]
\* a YAML mapping: a function from keys to values (null is NoneStr)
YamlMap(m) == [kind |-> "map", map |-> m]

\* Path.exists() of a sidecar file
FileExists(doc) == doc.kind # "absent"

\* the loader accepts a key in snake_case or in the dumped lisp-case
HasKey(m, snake, lisp) == snake \in DOMAIN m \/ lisp \in DOMAIN m
Field(m, snake, lisp, default) ==
    IF snake \in DOMAIN m THEN m[snake]
    ELSE IF lisp \in DOMAIN m THEN m[lisp]
    ELSE default

\* LessonMetadata(title=...), the dataclass with its defaults
LessonMetadata(title) ==
    [title |-> title, min_grade |-> 0, subjects |-> <<>>,
     markdown_file |-> NoneStr, preview_image |-> NoneStr]

\* LessonMetadata.from_yaml_file: raises on invalid YAML or a missing title
LessonMetadata_from_yaml_file(doc) ==
    IF doc.kind # "map" THEN Raise
    ELSE IF ~HasKey(doc.map, "title", "title") THEN Raise
    ELSE Return(
        [title |-> Field(doc.map, "title", "title", <<>>),
         min_grade |-> Field(doc.map, "min_grade", "min-grade", 0),
         subjects |-> Field(doc.map, "subjects", "subjects", <<>>),
         markdown_file |-> Field(doc.map, "markdown_file", "markdown-file", NoneStr),
         preview_image |-> Field(doc.map, "preview_image", "preview-image", NoneStr)])

\* LessonMetadata.to_yaml(): keys are dumped in lisp-case
LessonMetadata_to_yaml(md) ==
    YamlMap(("title" :> md.title) @@ ("min-grade" :> md.min_grade)
            @@ ("subjects" :> md.subjects) @@ ("markdown-file" :> md.markdown_file)
            @@ ("preview-image" :> md.preview_image))

\* CourseMetadata(title=..., collection_name=...)
CourseMetadata(title, collection_name) ==
    [title |-> title, collection_name |-> collection_name,
     description |-> NoneStr, preview_image |-> NoneStr]

\* CourseMetadata.from_yaml_file: title and collection_name are required
CourseMetadata_from_yaml_file(doc) ==
    IF doc.kind # "map" THEN Raise
    ELSE IF ~HasKey(doc.map, "title", "title")
            \/ ~HasKey(doc.map, "collection_name", "collection-name") THEN Raise
    ELSE Return(
        [title |-> Field(doc.map, "title", "title", <<>>),
         collection_name |-> Field(doc.map, "collection_name", "collection-name", <<>>),
         description |-> Field(doc.map, "description", "description", NoneStr),
         preview_image |-> Field(doc.map, "preview_image", "preview-image", NoneStr)])

\* CourseMetadata.to_yaml()
CourseMetadata_to_yaml(md) ==
    YamlMap(("title" :> md.title) @@ ("collection-name" :> md.collection_name)
            @@ ("description" :> md.description)
            @@ ("preview-image" :> md.preview_image))

----------------------------------------------------------------------------
(* core/models.py: the entities *)

\* a constructor that drops the lesson_path it is given
Lesson_WithoutLessonPath(title, content_path, lesson_path, metadata) ==
    [class |-> "Lesson", title |-> title, content_path |-> content_path,
     lesson_path |-> NoneStr,
     metadata |-> IF metadata = None THEN LessonMetadata(title) ELSE metadata]

\* Lesson.__init__: default metadata is created when none is given
Lesson(title, content_path, lesson_path, metadata) ==
    [class |-> "Lesson", title |-> title, content_path |-> content_path,
     lesson_path |-> lesson_path,
     metadata |-> IF metadata = None THEN LessonMetadata(title) ELSE metadata]

\* BaseLesson.validate
validate(lesson) == Truthy(lesson.content_path) /\ Truthy(lesson.lesson_path)

\* a Course without __post_init__: the metadata stays as given
Course_WithoutPostInit(title, collection_name, course_path, metadata) ==
    [title |-> title, collection_name |-> collection_name,
     course_path |-> course_path, lessons |-> <<>>, metadata |-> metadata]

\* Course(...) with __post_init__: default metadata when none is given
Course(title, collection_name, course_path, metadata) ==
    [title |-> title, collection_name |-> collection_name,
     course_path |-> course_path, lessons |-> <<>>,
     metadata |-> IF metadata = None THEN CourseMetadata(title, collection_name)
                  ELSE metadata]

\* CourseCollection(...)
CourseCollection(title, unique_collection_name, collection_path, writable) ==
    [title |-> title, unique_collection_name |-> unique_collection_name,
     collection_path |-> collection_path, writable |-> writable]

\* a relative_markdown_path taken relative to unit_root_path, as
\* Course.get_relative_path does
relative_markdown_path_UnitRoot(lesson, e, cfg) ==
    IF ~Truthy(lesson.content_path) THEN Return(NoneStr)
    ELSE LET r == relative_to(PathOf(lesson.content_path), PathOf(cfg.unit_root_path))
         IN IF r.raised THEN Raise ELSE Return(as_posix(r.value))

\* BaseLesson.relative_markdown_path, with the configuration loaded at the call
relative_markdown_path(lesson, e, cfg) ==
    IF ~Truthy(lesson.content_path) THEN Return(NoneStr)
    ELSE LET r == relative_to(PathOf(lesson.content_path), get_scan_path(e, cfg))
         IN IF r.raised THEN Raise ELSE Return(as_posix(r.value))

\* the defaults of PortalConfig.liascript_devserver and liascript_html_path
LiascriptDevserver == <<"http://localhost:3000">>
LiascriptHtmlPath == <<"/liascript/index.html">>

\* the URL tutorial_url puts before the relative path
LiascriptUrl ==
    LiascriptDevserver \o LiascriptHtmlPath \o <<"?">> \o LiascriptDevserver \o <<"/">>

\* the f-string of tutorial_url around the value r of relative_markdown_path
TutorialUrlOf(r) == IF r.raised THEN Raise ELSE Return(LiascriptUrl \o r.value)

\* BaseLesson.tutorial_url, with the configuration loaded at the call
tutorial_url(lesson, e, cfg) ==
    IF ~Truthy(lesson.content_path) THEN Return(NoneStr)
    ELSE TutorialUrlOf(relative_markdown_path(lesson, e, cfg))

\* Course.get_relative_path, with the configuration loaded at the call: an
\* absolute course_path is taken relative to config.unit_root_path, the
\* configured string, not to get_scan_path()
get_relative_path(course, cfg) ==
    IF course.course_path = None THEN Return(None)
    ELSE IF course.course_path.abs
    THEN relative_to(course.course_path, PathOf(cfg.unit_root_path))
    ELSE Return(course.course_path)

----------------------------------------------------------------------------
(* The directory tree below the scan root                                  *)
(*   root       [exists, files, colls : name -> collection directory]      *)
(*   collection [denied, files, courses : name -> course directory]        *)
(*   course     [denied, course_yml, lessons : name -> lesson directory]   *)
(*   lesson     [denied, md : set of *.md file names, lesson_yml,          *)
(*               metadata_yml]                                             *)
(* files are the non-directory entries; denied is a directory the process  *)
(* has no permission to list or traverse (PermissionError).                *)

LessonDir(md, lesson_yml, metadata_yml) ==
    [denied |-> FALSE, md |-> md, lesson_yml |-> lesson_yml,
     metadata_yml |-> metadata_yml]

CourseDir(course_yml, lessons) ==
    [denied |-> FALSE, course_yml |-> course_yml, lessons |-> lessons]

CollDir(files, courses) == [denied |-> FALSE, files |-> files, courses |-> courses]

RootDir(files, colls) == [exists |-> TRUE, files |-> files, colls |-> colls]

NoRoot == [exists |-> FALSE, files |-> {}, colls |-> <<>>]

\* the sequences that list every element of S exactly once
Perms(S) ==
    {p \in [1..Cardinality(S) -> S] : \A i, j \in DOMAIN p : p[i] = p[j] => i = j}

\* the entries S of a directory in the order the filesystem enumerates them
Enumerate(S, order) == SelectSeq(order, LAMBDA x : x \in S)

----------------------------------------------------------------------------
(* core/unit_scanner.py: the loaders.  ord gives the enumeration order of  *)
(* the directories: ord.colls, ord.courses, ord.lessons, ord.md.           *)

\* UnitScanner._find_content_file
_find_content_file(dir, lesson_dir, ord) ==
    IF dir.denied THEN Raise
    ELSE IF "README.md" \in dir.md THEN Return(Child(lesson_dir, "README.md"))
    ELSE IF dir.md # {} THEN Return(Child(lesson_dir, Enumerate(dir.md, ord.md)[1]))
    ELSE Return(None)

\* BaseLesson.validate decides whether _load_lesson returns the lesson
ValidOrNone(lesson) == IF validate(lesson) THEN lesson ELSE None

\* a loader that ignores markdown_file
ContentPathStr_Discovered(lesson_metadata, found, lesson_dir) == as_posix(found.value)

\* _load_lesson, "Determine content path": found is what _find_content_file gives
ContentPathStr(lesson_metadata, found, lesson_dir) ==
    IF ~Truthy(lesson_metadata.markdown_file) THEN as_posix(found.value)
    ELSE as_posix(PathJoin(lesson_dir, PathOf(lesson_metadata.markdown_file)))

\* _load_lesson, the inner try once the sidecar is parsed
LessonFromMetadata(lesson_metadata, found, lesson_dir) ==
    IF ~Truthy(lesson_metadata.markdown_file) /\ (found.raised \/ found.value = None)
    THEN None
    ELSE ValidOrNone(Lesson(lesson_metadata.title,
                            ContentPathStr(lesson_metadata, found, lesson_dir),
                            as_posix(lesson_dir), lesson_metadata))

\* a loader that falls back to the simple lesson when the sidecar fails to parse
LessonFromSidecar_Fallback(parsed, found, lesson_dir) ==
    IF parsed.raised
    THEN Lesson(PathName(PathParent(lesson_dir)) \o <<" - ">> \o PathName(lesson_dir),
                as_posix(found.value), as_posix(lesson_dir), None)
    ELSE LessonFromMetadata(parsed.value, found, lesson_dir)

\* _load_lesson, the inner try: a sidecar that fails to parse gives None
LessonFromSidecar(parsed, found, lesson_dir) ==
    IF parsed.raised THEN None
    ELSE LessonFromMetadata(parsed.value, found, lesson_dir)

\* a loader that prefers the legacy metadata.yml
Sidecar_LegacyFirst(dir) ==
    IF FileExists(dir.metadata_yml) THEN dir.metadata_yml ELSE dir.lesson_yml

\* lesson.yml, or the legacy metadata.yml when there is no lesson.yml
Sidecar(dir) == IF FileExists(dir.lesson_yml) THEN dir.lesson_yml ELSE dir.metadata_yml

\* a loader that titles the simple lesson by the lesson directory alone
SimpleLesson_DirTitle(content_path, lesson_dir) ==
    Lesson(PathName(lesson_dir), as_posix(content_path), as_posix(lesson_dir), None)

\* _load_lesson for a lesson directory without sidecar
SimpleLesson(content_path, lesson_dir) ==
    Lesson(PathName(PathParent(lesson_dir)) \o <<" - ">> \o PathName(lesson_dir),
           as_posix(content_path), as_posix(lesson_dir), None)

\* a loader that reads the sidecar before it looks for a content file
LoadLessonFrom_SidecarFirst(dir, lesson_dir, content_path) ==
    IF content_path.raised THEN None
    ELSE IF FileExists(Sidecar(dir))
    THEN LessonFromSidecar(LessonMetadata_from_yaml_file(Sidecar(dir)),
                           content_path, lesson_dir)
    ELSE IF content_path.value = None THEN None
    ELSE SimpleLesson(content_path.value, lesson_dir)

\* _load_lesson after its first step, content_path = _find_content_file(...)
LoadLessonFrom(dir, lesson_dir, content_path) ==
    IF content_path.raised THEN None
    ELSE IF content_path.value = None THEN None
    ELSE IF FileExists(Sidecar(dir))
    THEN LessonFromSidecar(LessonMetadata_from_yaml_file(Sidecar(dir)),
                           content_path, lesson_dir)
    ELSE SimpleLesson(content_path.value, lesson_dir)

\* UnitScanner._load_lesson: a Lesson, or None; every exception is caught
_load_lesson(dir, lesson_dir, ord) ==
    LoadLessonFrom(dir, lesson_dir, _find_content_file(dir, lesson_dir, ord))

\* _scan_lessons: "if lesson: lessons.append(lesson)"
AppendLesson(lessons, lesson) ==
    IF lesson # None THEN Append(lessons, lesson) ELSE lessons

\* one iteration of the loop of _scan_lessons
ScanLessonEntry(course, course_dir, name, lessons, ord) ==
    IF name \notin DOMAIN course.lessons THEN lessons
    ELSE AppendLesson(lessons,
             _load_lesson(course.lessons[name], Child(course_dir, name), ord))

RECURSIVE ScanLessonEntries(_, _, _, _, _)
\* the loop of _scan_lessons over the enumerated entries
ScanLessonEntries(course, course_dir, entries, lessons, ord) ==
    IF entries = <<>> THEN lessons
    ELSE ScanLessonEntries(course, course_dir, Tail(entries),
             ScanLessonEntry(course, course_dir, entries[1], lessons, ord), ord)

\* the entries of a course directory: course.yml, then the lesson directories
CourseEntries(course, ord) ==
    (IF FileExists(course.course_yml) THEN <<"course.yml">> ELSE <<>>)
    \o Enumerate(DOMAIN course.lessons, ord.lessons)

\* UnitScanner._scan_lessons: iterdir() is outside any try
_scan_lessons(course, course_dir, ord) ==
    IF course.denied THEN Raise
    ELSE Return(ScanLessonEntries(course, course_dir, CourseEntries(course, ord),
                                  <<>>, ord))

\* a loader that titles the course it synthesizes by the collection directory
MakeCourse_CollectionTitle(course, course_dir, collection_name, parsed) ==
    IF FileExists(course.course_yml) /\ ~parsed.raised
    THEN Course(parsed.value.title, collection_name, course_dir, parsed.value)
    ELSE Course(collection_name, collection_name, course_dir, None)

\* a loader that takes the collection_name course.yml declares
MakeCourse_DeclaredCollection(course, course_dir, collection_name, parsed) ==
    IF FileExists(course.course_yml) /\ ~parsed.raised
    THEN Course(parsed.value.title, parsed.value.collection_name, course_dir,
                parsed.value)
    ELSE Course(PathName(course_dir), collection_name, course_dir, None)

\* _load_course, the Course it constructs from the parsed course.yml
MakeCourse(course, course_dir, collection_name, parsed) ==
    IF FileExists(course.course_yml) /\ ~parsed.raised
    THEN Course(parsed.value.title, collection_name, course_dir, parsed.value)
    ELSE Course(PathName(course_dir), collection_name, course_dir, None)

\* _load_course: "course.lessons = self._scan_lessons(course_dir)"
WithLessons(made, lessons) ==
    IF lessons.raised THEN Raise ELSE Return([made EXCEPT !.lessons = lessons.value])

\* UnitScanner._load_course
_load_course(course, course_dir, collection_name, ord) ==
    IF course.denied THEN Raise
    ELSE WithLessons(MakeCourse(course, course_dir, collection_name,
                                CourseMetadata_from_yaml_file(course.course_yml)),
                     _scan_lessons(course, course_dir, ord))

\* _scan_collection: "if course: self.courses.append(course)"
AppendCourse(courses, course) ==
    IF course.raised THEN Raise ELSE Return(Append(courses.value, course.value))

\* a loop body without the is_dir() test: a file entry is loaded as a course,
\* which _load_course makes of its name with no lessons
ScanCourseEntry_FilesToo(coll, collection_path, collection_name, name, courses, ord) ==
    IF name \notin DOMAIN coll.courses
    THEN AppendCourse(courses,
             Return(Course(<<name>>, collection_name, Child(collection_path, name), None)))
    ELSE AppendCourse(courses,
             _load_course(coll.courses[name], Child(collection_path, name),
                          collection_name, ord))

\* one iteration of the loop of _scan_collection
ScanCourseEntry(coll, collection_path, collection_name, name, courses, ord) ==
    IF name \notin DOMAIN coll.courses THEN courses
    ELSE AppendCourse(courses,
             _load_course(coll.courses[name], Child(collection_path, name),
                          collection_name, ord))

RECURSIVE ScanCourseEntries(_, _, _, _, _, _)
\* the loop of _scan_collection; it ends at the first exception
ScanCourseEntries(coll, collection_path, collection_name, entries, courses, ord) ==
    IF entries = <<>> \/ courses.raised THEN courses
    ELSE ScanCourseEntries(coll, collection_path, collection_name, Tail(entries),
             ScanCourseEntry(coll, collection_path, collection_name, entries[1],
                             courses, ord), ord)

\* the writable flag _scan_collection gives every collection
Writable(collection_name) == TRUE

\* _scan_collection: the catalog with the collection and its courses added
WithCollection(cat, collection, courses) ==
    IF courses.raised THEN Raise
    ELSE Return([courses |-> courses.value,
                 collections |-> Append(cat.collections, collection)])

\* the entries of a collection directory: the files, then the course directories
CollEntries(coll, ord) ==
    Enumerate(coll.files, ord.files) \o Enumerate(DOMAIN coll.courses, ord.courses)

\* UnitScanner._scan_collection on the catalog cat = [courses, collections]
_scan_collection(coll, collection_path, collection_name, cat, ord) ==
    IF coll.denied THEN Raise
    ELSE WithCollection(cat,
             CourseCollection(collection_name, collection_name, collection_path,
                              Writable(collection_name)),
             ScanCourseEntries(coll, collection_path, collection_name,
                               CollEntries(coll, ord), Return(cat.courses), ord))

\* one iteration of the loop of _scan_courses; cat is the catalog or an exception
ScanRootEntry(root, base_path, name, cat, ord) ==
    IF name \notin DOMAIN root.colls THEN cat
    ELSE _scan_collection(root.colls[name], Child(base_path, name), <<name>>,
                          cat.value, ord)

RECURSIVE ScanRootEntries(_, _, _, _, _)
\* the loop of _scan_courses; it ends at the first exception
ScanRootEntries(root, base_path, entries, cat, ord) ==
    IF entries = <<>> \/ cat.raised THEN cat
    ELSE ScanRootEntries(root, base_path, Tail(entries),
             ScanRootEntry(root, base_path, entries[1], cat, ord), ord)

\* the entries of the scan root: the files, then the collection directories
RootEntries(root, ord) ==
    Enumerate(root.files, ord.files) \o Enumerate(DOMAIN root.colls, ord.colls)

\* lists that are not reset by __init__ but shared with the scanner in use
EmptyCatalog_Shared ==
    IF scanner.live
    THEN [courses |-> scanner.courses, collections |-> scanner.collections]
    ELSE [courses |-> <<>>, collections |-> <<>>]

EmptyCatalog == [courses |-> <<>>, collections |-> <<>>]

\* a _scan_courses that lists the root without testing that it exists:
\* iterdir() raises FileNotFoundError
_scan_courses_Unchecked(root, e, cfg, ord) ==
    IF ~root.exists THEN Raise
    ELSE ScanRootEntries(root, get_scan_path(e, cfg), RootEntries(root, ord),
                         Return(EmptyCatalog), ord)

\* UnitScanner._scan_courses
_scan_courses(root, e, cfg, ord) ==
    IF ~root.exists THEN Return(EmptyCatalog)
    ELSE ScanRootEntries(root, get_scan_path(e, cfg), RootEntries(root, ord),
                         Return(EmptyCatalog), ord)

\* UnitScanner.__init__: the new scanner, or the exception that escapes
UnitScanner(root, e, cfg, ord) == _scan_courses(root, e, cfg, ord)

----------------------------------------------------------------------------
(* fuzz.partial_ratio of fuzzywuzzy, on difflib.SequenceMatcher            *)

RECURSIVE MatchLen(_, _, _, _, _, _)
\* length of the common run of a[i..ahi] and b[j..bhi] starting at i and j
MatchLen(a, i, ahi, b, j, bhi) ==
    IF i > ahi \/ j > bhi THEN 0
    ELSE IF a[i] # b[j] THEN 0
    ELSE 1 + MatchLen(a, i + 1, ahi, b, j + 1, bhi)

SetMax(S) == CHOOSE x \in S : \A y \in S : y <= x
SetMin(S) == CHOOSE x \in S : \A y \in S : x <= y

\* SequenceMatcher.find_longest_match: the longest block, earliest in a, then in b
find_longest_match(a, alo, ahi, b, blo, bhi) ==
    LET k == SetMax({MatchLen(a, i, ahi, b, j, bhi) : i \in alo..ahi, j \in blo..bhi})
        i0 == SetMin({i \in alo..ahi :
                        \E j \in blo..bhi : MatchLen(a, i, ahi, b, j, bhi) = k})
        j0 == SetMin({j \in blo..bhi : MatchLen(a, i0, ahi, b, j, bhi) = k})
    IN [i |-> i0, j |-> j0, k |-> k]

RECURSIVE get_matching_blocks(_, _, _, _, _, _)
\* SequenceMatcher.get_matching_blocks without the closing (la, lb, 0) block
get_matching_blocks(a, alo, ahi, b, blo, bhi) ==
    IF alo > ahi \/ blo > bhi THEN {}
    ELSE LET m == find_longest_match(a, alo, ahi, b, blo, bhi)
         IN IF m.k = 0 THEN {}
            ELSE {m} \cup get_matching_blocks(a, alo, m.i - 1, b, blo, m.j - 1)
                     \cup get_matching_blocks(a, m.i + m.k, ahi, b, m.j + m.k, bhi)

RECURSIVE SumSizes(_)
SumSizes(blocks) ==
    IF blocks = {} THEN 0
    ELSE LET m == CHOOSE x \in blocks : TRUE IN m.k + SumSizes(blocks \ {m})

\* utils.intr: int(round(n / d)), Python's round-half-to-even
intr(n, d) ==
    LET q == n \div d
        r == n % d
    IN IF 2 * r < d THEN q
       ELSE IF 2 * r > d THEN q + 1
       ELSE IF q % 2 = 0 THEN q ELSE q + 1

\* 100 * SequenceMatcher(None, a, b).ratio(), as the pair <<200 * M, T>>
ratio(a, b) ==
    <<200 * SumSizes(get_matching_blocks(a, 1, Len(a), b, 1, Len(b))), Len(a) + Len(b)>>

\* fuzz.partial_ratio(s1, s2)
partial_ratio(s1, s2) ==
    IF s1 = s2 THEN 100
    ELSE IF Len(s1) = 0 \/ Len(s2) = 0 THEN 0
    ELSE LET shorter == IF Len(s1) <= Len(s2) THEN s1 ELSE s2
             longer == IF Len(s1) <= Len(s2) THEN s2 ELSE s1
             blocks == get_matching_blocks(shorter, 1, Len(shorter),
                                           longer, 1, Len(longer))
             starts == {IF m.j - m.i > 0 THEN m.j - m.i ELSE 0 : m \in blocks}
                       \cup {Len(longer) - Len(shorter)}
             scores == {ratio(shorter,
                              SubSeq(longer, st + 1,
                                     IF st + Len(shorter) < Len(longer)
                                     THEN st + Len(shorter) ELSE Len(longer))) :
                        st \in starts}
         IN IF \E r \in scores : 10 * r[1] > 995 * r[2] THEN 100
            ELSE SetMax({intr(r[1], r[2]) : r \in scores})

----------------------------------------------------------------------------
(* core/unit_scanner.py: the query operations on a catalog                 *)

RECURSIVE Flatten_Reversed(_)
\* a flattening that takes the courses last to first
Flatten_Reversed(courses) ==
    IF courses = <<>> THEN <<>>
    ELSE Flatten_Reversed(Tail(courses)) \o courses[1].lessons

RECURSIVE Flatten(_)
Flatten(courses) ==
    IF courses = <<>> THEN <<>> ELSE courses[1].lessons \o Flatten(Tail(courses))

\* UnitScanner.list_all_lessons
list_all_lessons(cat) == Flatten(cat.courses)

\* the score search gives a lesson
Score(query, lesson) == partial_ratio(lower(query), lower(lesson.title))

RECURSIVE InsertDesc_Unstable(_, _, _)
\* an insertion that puts x before the elements of equal score
InsertDesc_Unstable(s, x, query) ==
    IF s = <<>> THEN <<x>>
    ELSE IF Score(query, s[1]) > Score(query, x)
         THEN <<s[1]>> \o InsertDesc_Unstable(Tail(s), x, query)
         ELSE <<x>> \o s

RECURSIVE InsertDesc(_, _, _)
\* x inserted into the descending sequence s after the elements that score >= x
InsertDesc(s, x, query) ==
    IF s = <<>> THEN <<x>>
    ELSE IF Score(query, s[1]) >= Score(query, x)
         THEN <<s[1]>> \o InsertDesc(Tail(s), x, query)
         ELSE <<x>> \o s

RECURSIVE SortedByScore(_, _)
\* sorted(results, key=score, reverse=True): stable, descending
SortedByScore(results, query) ==
    IF results = <<>> THEN <<>>
    ELSE InsertDesc(SortedByScore(SubSeq(results, 1, Len(results) - 1), query),
                    results[Len(results)], query)

\* a search that drops the lessons scoring exactly min_score
Admits_Strict(score, min_score) == score > min_score

\* the test that admits a lesson to the results of search
Admits(score, min_score) == score >= min_score

\* UnitScanner.search
search(cat, query, min_score) ==
    SortedByScore(SelectSeq(list_all_lessons(cat),
                            LAMBDA lesson : Admits(Score(query, lesson), min_score)),
                  query)

\* isinstance(obj, LessonMetadata): no class of the model derives from it
IsLessonMetadata(obj) == obj.class = "LessonMetadata"

\* x in xs, for a list
Contains(xs, x) == \E i \in DOMAIN xs : xs[i] = x

\* UnitScanner.filter_by_subject
filter_by_subject(cat, subject) ==
    SelectSeq(list_all_lessons(cat),
              LAMBDA lesson : IsLessonMetadata(lesson) /\ Contains(lesson.subjects, subject))

\* UnitScanner.filter_by_grade
filter_by_grade(cat, grade) ==
    SelectSeq(list_all_lessons(cat),
              LAMBDA lesson : IsLessonMetadata(lesson) /\ lesson.min_grade <= grade)

\* a filter that compares the collection names without regard to case
filter_course_by_collection_NoCase(cat, collection_name) ==
    SelectSeq(cat.courses,
              LAMBDA course : lower(course.collection_name) = lower(collection_name))

\* UnitScanner.filter_course_by_collection
filter_course_by_collection(cat, collection_name) ==
    SelectSeq(cat.courses, LAMBDA course : course.collection_name = collection_name)

----------------------------------------------------------------------------
(* portal/course_browser.py: the lists the browser takes from the scanner  *)

\* the tokens of course titles in code-point order, the order of str < str
CodePointOrder ==
    <<"A", "B", "a", "b", "courseB", "courseD", "courseb", "coursed", "n">>
TokenRank(t) == CHOOSE i \in DOMAIN CodePointOrder : CodePointOrder[i] = t

RECURSIVE StrLess(_, _)
\* s < t for two str
StrLess(s, t) ==
    IF t = <<>> THEN FALSE
    ELSE IF s = <<>> THEN TRUE
    ELSE IF s[1] = t[1] THEN StrLess(Tail(s), Tail(t))
    ELSE TokenRank(s[1]) < TokenRank(t[1])

\* key=lambda course: course.title.lower()
TitleKey(course) == lower(course.title)

RECURSIVE InsertByTitle(_, _)
\* x inserted into the ascending sequence s after the elements with key <= x's
InsertByTitle(s, x) ==
    IF s = <<>> THEN <<x>>
    ELSE IF StrLess(TitleKey(x), TitleKey(s[1])) THEN <<x>> \o s
    ELSE <<s[1]>> \o InsertByTitle(Tail(s), x)

RECURSIVE SortedByTitle(_)
\* list.sort(key=...): stable, ascending
SortedByTitle(courses) ==
    IF courses = <<>> THEN <<>>
    ELSE InsertByTitle(SortedByTitle(SubSeq(courses, 1, Len(courses) - 1)),
                       courses[Len(courses)])

\* UnitScanner.list_all_courses: the scanner's own list object, not a copy
list_all_courses(cat) == cat.courses

\* UnitScanner.list_all_collections: the scanner's own list object
list_all_collections(cat) == cat.collections

\* UnitBrowserWidget.display_courses: the list it is given, after
\* courses.sort(key=lambda course: course.title.lower())
display_courses(courses) == SortedByTitle(courses)

----------------------------------------------------------------------------
(* core/models.py: Course.save                                             *)

\* the collection and course names of a course directory below the scan root
CourseKey(course_path, e, cfg) == relative_to(course_path, get_scan_path(e, cfg)).value.parts

\* Path.exists() of a course directory
CourseDirExists(root, key) ==
    /\ root.exists
    /\ key[1] \in DOMAIN root.colls
    /\ key[2] \in DOMAIN root.colls[key[1]].courses

\* os.makedirs(course_dir, exist_ok=True)
MakeCourseDir(root, key) ==
    LET colls == IF root.exists THEN root.colls ELSE <<>>
        coll == IF key[1] \in DOMAIN colls THEN colls[key[1]] ELSE CollDir({}, <<>>)
        made == [coll EXCEPT !.courses = (key[2] :> CourseDir(NoFile, <<>>)) @@ @]
    IN [exists |-> TRUE, files |-> root.files, colls |-> (key[1] :> made) @@ colls]

\* open(course_yml_path, 'w') and write
WriteCourseYml(root, key, doc) ==
    [root EXCEPT !.colls[key[1]].courses[key[2]].course_yml = doc]

\* a save that writes the metadata's own title
SavedTitle_FromMetadata(course) == course.metadata.title

\* the title Course.save stores in the metadata it writes
SavedTitle(course) == course.title

\* Course.save on the tree root; io names the outcome of the system calls.
\* Gives the result, the course (its metadata is updated in place) and the tree.
Course_save(course, root, e, cfg, io) ==
    LET key == CourseKey(course.course_path, e, cfg)
        exists == CourseDirExists(root, key)
        dir_ready == IF exists THEN root ELSE MakeCourseDir(root, key)
        metadata == [course.metadata EXCEPT !.title = SavedTitle(course),
                                            !.collection_name = course.collection_name]
        updated == [course EXCEPT !.metadata = metadata]
    IN IF course.course_path = None \/ course.metadata = None
       THEN [raised |-> FALSE, result |-> FALSE, course |-> course, root |-> root]
       ELSE IF io = "stat_denied"
       THEN [raised |-> TRUE, result |-> FALSE, course |-> course, root |-> root]
       ELSE IF ~exists /\ io = "mkdir_fails"
       THEN [raised |-> FALSE, result |-> FALSE, course |-> course, root |-> root]
       ELSE IF io = "write_fails"
       THEN [raised |-> FALSE, result |-> FALSE, course |-> updated, root |-> dir_ready]
       ELSE [raised |-> FALSE, result |-> TRUE, course |-> updated,
             root |-> WriteCourseYml(dir_ready, key, CourseMetadata_to_yaml(metadata))]

\* the collection, course and lesson names of a lesson directory
LessonKey(lesson_path, e, cfg) ==
    relative_to(PathOf(lesson_path), get_scan_path(e, cfg)).value.parts

\* Path.exists() of a lesson directory
LessonDirExists(root, key) ==
    /\ CourseDirExists(root, <<key[1], key[2]>>)
    /\ key[3] \in DOMAIN root.colls[key[1]].courses[key[2]].lessons

\* the tree with the course directory of key, made if it is missing
WithCourseDir(root, key) ==
    IF CourseDirExists(root, <<key[1], key[2]>>) THEN root
    ELSE MakeCourseDir(root, <<key[1], key[2]>>)

\* the tree r with an empty lesson directory added
WithLessonDir(r, key) ==
    [r EXCEPT !.colls[key[1]].courses[key[2]].lessons =
                 (key[3] :> LessonDir({}, NoFile, NoFile)) @@ @]

\* os.makedirs(lesson_dir, exist_ok=True)
MakeLessonDir(root, key) == WithLessonDir(WithCourseDir(root, key), key)

\* open(lesson_yml_path, 'w') and write
WriteLessonYml(root, key, doc) ==
    [root EXCEPT !.colls[key[1]].courses[key[2]].lessons[key[3]].lesson_yml = doc]

\* BaseLesson.save on the tree root; io names the outcome of the system calls
Lesson_save(lesson, root, e, cfg, io) ==
    LET key == LessonKey(lesson.lesson_path, e, cfg)
        exists == LessonDirExists(root, key)
        dir_ready == IF exists THEN root ELSE MakeLessonDir(root, key)
    IN IF ~Truthy(lesson.lesson_path) \/ lesson.metadata = None
       THEN [raised |-> FALSE, result |-> FALSE, root |-> root]
       ELSE IF io = "stat_denied"
       THEN [raised |-> TRUE, result |-> FALSE, root |-> root]
       ELSE IF ~exists /\ io = "mkdir_fails"
       THEN [raised |-> FALSE, result |-> FALSE, root |-> root]
       ELSE IF io = "write_fails"
       THEN [raised |-> FALSE, result |-> FALSE, root |-> dir_ready]
       ELSE [raised |-> FALSE, result |-> TRUE,
             root |-> WriteLessonYml(dir_ready, key,
                                     LessonMetadata_to_yaml(lesson.metadata))]

\* the outcomes of the system calls of save(): all succeed; the stat() of
\* Path.exists() fails with EACCES, which exists() re-raises as PermissionError
\* (it swallows only ENOENT, ENOTDIR, EBADF and ELOOP); os.makedirs fails;
\* open() or write() fails
IoOutcomes == {"ok", "stat_denied", "mkdir_fails", "write_fails"}

----------------------------------------------------------------------------
(* The directory trees, configurations and inputs the model starts from    *)

CollNames == {"collA", "drafts"}
CourseNames == {"courseB", "courseD"}
LessonNameSeq == <<"lessonC", "lessonE", "lessonF", "lessonG">>
LessonNames == {LessonNameSeq[i] : i \in 1..MaxLessons}
MdNames == {"README.md", "content.md", "intro.md"}
FileNames == {"notes.txt"}

\* subject names
Math == <<"math">>
Art == <<"art">>
Music == <<"music">>

\* a hand-written lesson.yml
LessonDoc(title, min_grade, subjects) ==
    YamlMap([title |-> title, min_grade |-> min_grade, subjects |-> subjects])
LessonDocWithFile(title, min_grade, markdown_file) ==
    YamlMap([title |-> title, min_grade |-> min_grade, markdown_file |-> markdown_file])

LessonKinds ==
    { LessonDir({"content.md"}, NoFile, NoFile),
      LessonDir({"content.md", "intro.md"}, NoFile, NoFile),
      LessonDir({"content.md", "intro.md"}, LessonDoc(<<"a", "b">>, 1, <<Math>>), NoFile),
      LessonDir({"README.md", "content.md", "intro.md"},
                LessonDocWithFile(<<"B", "a">>, 3, <<"intro.md">>), NoFile),
      LessonDir({"content.md"}, NoFile, LessonDoc(<<"b">>, 5, <<Math, Art>>)),
      LessonDir({"README.md"}, Corrupt, NoFile),
      LessonDir({"content.md"}, YamlMap([min_grade |-> 1]),
                LessonDoc(<<"a">>, 1, <<Art>>)),
      LessonDir({}, LessonDocWithFile(<<"a">>, 1, <<"intro.md">>), NoFile),
      LessonDir({}, NoFile, NoFile) }

\* course directories with the lesson directories named by the first n names
LessonSets == UNION {[{LessonNameSeq[i] : i \in 1..n} -> LessonKinds] : n \in 1..MaxLessons}

CourseDoc(title, collection_name, description) ==
    YamlMap([title |-> title, collection_name |-> collection_name,
             description |-> description])

PlainLessons == ("lessonC" :> LessonDir({"content.md"}, NoFile, NoFile))
GradedLessons ==
    ("lessonC" :> LessonDir({"content.md"}, LessonDoc(<<"a", "b">>, 1, <<Math>>), NoFile))
    @@ ("lessonE" :> LessonDir({"README.md"}, NoFile, NoFile))

CourseKinds ==
    { CourseDir(NoFile, PlainLessons),
      CourseDir(CourseDoc(<<"a">>, <<"other">>, <<"d">>), GradedLessons),
      CourseDir(Corrupt, PlainLessons),
      CourseDir(YamlMap([title |-> <<"b">>]), <<>>),
      CourseDir(YamlMap([collection_name |-> <<"other">>]), GradedLessons) }

CourseSets == UNION {[S -> CourseKinds] : S \in SUBSET CourseNames}

DefaultConfig == get_default_config
AbsoluteConfig == [unit_root_path |-> AbsoluteUnitRoot]

World(e, cfg, root) == [env |-> e, config |-> cfg, fs |-> root]

\* one collection with one course: every choice of lesson directories
DeepWorlds ==
    {World("production", DefaultConfig,
           RootDir({}, ("collA" :> CollDir({}, ("courseB" :> CourseDir(NoFile, ls))))))
       : ls \in LessonSets}

\* several collections and courses
WideWorlds ==
    {World("production", DefaultConfig,
           RootDir({"notes.txt"}, ("collA" :> CollDir({"notes.txt"}, cs))
                                  @@ ("drafts" :> CollDir({}, ds))))
       : cs \in CourseSets,
         ds \in {<<>>, ("courseB" :> CourseDir(NoFile, PlainLessons))}}

\* the three ways the scan root is configured, and a missing root
ConfigWorlds ==
    {World(w[1], w[2], root) :
       w \in {<<"development", DefaultConfig>>, <<"production", AbsoluteConfig>>,
              <<"production", DefaultConfig>>},
       root \in {NoRoot, RootDir({}, <<>>),
                 RootDir({}, ("collA" :> CollDir({}, ("courseB" :> CourseDir(
                     CourseDoc(<<"a">>, <<"collA">>, NoneStr), GradedLessons)))))}}

Worlds == DeepWorlds \cup WideWorlds \cup ConfigWorlds

\* lesson directories whose sidecar gives a title, and one without sidecar
TitledKinds ==
    { LessonDir({"content.md"}, LessonDoc(<<"a", "B">>, 1, <<>>), NoFile),
      LessonDir({"content.md"}, LessonDoc(<<"B", "a", "a">>, 1, <<>>), NoFile),
      LessonDir({"content.md"}, NoFile, NoFile) }

\* the lessons of the searched course: one lesson directory, or two
TitledSets ==
    [{"lessonC"} -> TitledKinds] \cup [{"lessonC", "lessonE"} -> TitledKinds]

\* the trees search runs on: two courses, the second with one titled lesson
SearchWorlds ==
    {World("production", DefaultConfig,
           RootDir({}, ("collA" :> CollDir({},
               ("courseB" :> CourseDir(NoFile, ls))
               @@ ("courseD" :> CourseDir(NoFile,
                      ("lessonC" :> LessonDir({"content.md"},
                                              LessonDoc(<<"a">>, 1, <<>>), NoFile))))))))
       : ls \in TitledSets}

\* the trees courses are saved in
SaveWorlds ==
    {w \in ConfigWorlds : w.fs.exists /\ DOMAIN w.fs.colls # {}}
    \cup {World("production", DefaultConfig,
                RootDir({}, ("collA" :> CollDir({},
                    ("courseB" :> CourseDir(k, PlainLessons))))))
            : k \in {NoFile, Corrupt}}

\* the trees that are changed between reloads
ReloadWorlds ==
    {World(e, DefaultConfig,
           RootDir({}, ("collA" :> CollDir({}, ("courseD" :> CourseDir(NoFile, PlainLessons))))
                       @@ ("drafts" :> CollDir({}, ("courseB" :> CourseDir(NoFile, PlainLessons))))))
       : e \in Environments}

\* the trees whose lists the browser takes: two collections, the courses of
\* collA titled by their directory or by course.yml
ViewWorlds ==
    {World("production", DefaultConfig,
           RootDir({}, ("collA" :> CollDir({}, cs))
                       @@ ("drafts" :> CollDir({}, ("courseB" :> CourseDir(NoFile, PlainLessons))))))
       : cs \in {("courseB" :> CourseDir(NoFile, GradedLessons))
                    @@ ("courseD" :> CourseDir(b, PlainLessons))
                 : b \in {NoFile, CourseDoc(<<"B">>, <<"other">>, NoneStr),
                          CourseDoc(<<"a">>, <<"collA">>, NoneStr)}}}

\* the trees entities are saved in, under every outcome of the system calls
SaveIOWorlds ==
    {World("production", DefaultConfig,
           RootDir({}, ("collA" :> CollDir({},
               ("courseB" :> CourseDir(NoFile, PlainLessons))))))}

\* the trees lessons are edited and saved in: lessonC has the legacy
\* metadata.yml only; lessonE has it too, or both sidecars, or none
LessonSaveWorlds ==
    {World("production", DefaultConfig,
           RootDir({}, ("collA" :> CollDir({}, ("courseB" :> CourseDir(NoFile,
               ("lessonC" :> LessonDir({"content.md"}, NoFile,
                                       LessonDoc(<<"b">>, 5, <<Math, Art>>)))
               @@ ("lessonE" :> d)))))))
       : d \in { LessonDir({"README.md"}, NoFile, LessonDoc(<<"a">>, 1, <<Art>>)),
                 LessonDir({"README.md"}, LessonDoc(<<"a", "b">>, 1, <<Math>>),
                           LessonDoc(<<"b">>, 5, <<Art>>)),
                 LessonDir({"README.md"}, NoFile, NoFile) }}

\* lesson directories by the markdown_file their sidecar names: none, a file
\* of the directory, a file in a subdirectory, a file that does not exist,
\* an absolute path
PathKinds ==
    { LessonDir({"content.md"}, NoFile, NoFile),
      LessonDir({"README.md", "intro.md"},
                LessonDocWithFile(<<"a">>, 1, <<"intro.md">>), NoFile),
      LessonDir({"content.md"},
                LessonDocWithFile(<<"a">>, 1, <<"docs", "/", "intro.md">>), NoFile),
      LessonDir({"content.md"},
                LessonDocWithFile(<<"a">>, 1, <<"missing.md">>), NoFile),
      LessonDir({"content.md"},
                LessonDocWithFile(<<"a">>, 1, <<"/", "srv", "/", "intro.md">>), NoFile) }

\* the trees whose lessons' paths are resolved, under each configuration of
\* the scan root
PathWorlds ==
    {World(w[1], w[2],
           RootDir({}, ("collA" :> CollDir({}, ("courseB" :> CourseDir(NoFile,
               ("lessonC" :> d)
               @@ ("lessonE" :> LessonDir({"README.md"}, NoFile, NoFile))))))))
       : w \in {<<"development", DefaultConfig>>, <<"production", AbsoluteConfig>>,
                <<"production", DefaultConfig>>},
         d \in PathKinds}

\* a tree with two collections and three courses, for the I/O failures
SampleTree ==
    RootDir({}, ("collA" :> CollDir({}, ("courseB" :> CourseDir(NoFile, GradedLessons))
                                        @@ ("courseD" :> CourseDir(NoFile, PlainLessons))))
                @@ ("drafts" :> CollDir({}, ("courseB" :> CourseDir(NoFile, PlainLessons)))))

\* SampleTree with directories the process may not list
DeniedTrees ==
    { SampleTree,
      [SampleTree EXCEPT !.colls["collA"].denied = TRUE],
      [SampleTree EXCEPT !.colls["drafts"].denied = TRUE],
      [SampleTree EXCEPT !.colls["collA"].courses["courseB"].denied = TRUE],
      [SampleTree EXCEPT !.colls["collA"].courses["courseD"].denied = TRUE],
      [SampleTree EXCEPT !.colls["drafts"].courses["courseB"].denied = TRUE],
      [SampleTree EXCEPT !.colls["collA"].courses["courseB"].lessons["lessonC"].denied = TRUE],
      [SampleTree EXCEPT !.colls["collA"].courses["courseB"].lessons["lessonE"].denied = TRUE],
      [SampleTree EXCEPT !.colls["collA"].courses["courseD"].lessons["lessonC"].denied = TRUE],
      [SampleTree EXCEPT !.colls["drafts"].courses["courseB"].lessons["lessonC"].denied = TRUE,
                         !.colls["collA"].courses["courseB"].lessons["lessonC"].denied = TRUE] }

IOWorlds ==
    {World(w[1], w[2], root) :
       w \in {<<"development", DefaultConfig>>, <<"production", DefaultConfig>>},
       root \in DeniedTrees}

Values(f) == {f[x] : x \in DOMAIN f}
CollDirsOf(root) == Values(root.colls)
CourseDirsOf(root) == UNION {Values(c.courses) : c \in CollDirsOf(root)}
LessonDirsOf(root) == UNION {Values(k.lessons) : k \in CourseDirsOf(root)}
CourseNamesOf(root) == UNION {DOMAIN c.courses : c \in CollDirsOf(root)}
LessonNamesOf(root) == UNION {DOMAIN k.lessons : k \in CourseDirsOf(root)}
\* glob("*.md") runs in the lesson directories without a README.md
MdNamesOf(root) == UNION {l.md : l \in {d \in LessonDirsOf(root) : "README.md" \notin d.md}}

\* the orders in which the filesystem may enumerate the entries of the tree
Orders(root) ==
    [colls : Perms(DOMAIN root.colls), courses : Perms(CourseNamesOf(root)),
     lessons : Perms(LessonNamesOf(root)), md : Perms(MdNamesOf(root)),
     files : Perms(FileNames)]

Alphabet == {"a", "B"}
Queries == UNION {[1..n -> Alphabet] : n \in 0..MaxQueryLen}
Thresholds == {0, 60, 100}
Grades == {0, 1, 3, 5}
Subjects == {Math, Art, Music}

NoScanner == [live |-> FALSE]
Catalog(cat) == [live |-> TRUE, courses |-> cat.courses, collections |-> cat.collections]

----------------------------------------------------------------------------
(* Actions *)

InitIn(worlds) ==
    /\ \E w \in worlds : env = w.env /\ config = w.config /\ fs = w.fs
    /\ scanner = NoScanner
    /\ scannedFs = NoRoot
    /\ raised = FALSE
    /\ last = [op |-> "none"]

Init == InitIn(Worlds)

\* the assignment self.scanner = UnitScanner(): r is the scanner or the exception
Constructed(r) ==
    /\ raised' = r.raised
    /\ scanner' = IF r.raised THEN scanner ELSE Catalog(r.value)
    /\ scannedFs' = IF r.raised THEN scannedFs ELSE fs
    /\ last' = [op |-> "scan"]
    /\ UNCHANGED <<env, config, fs>>

\* a caller constructs a scanner: scanner = UnitScanner()
Scan == \E ord \in Orders(fs) : Constructed(UnitScanner(fs, env, config, ord))

\* scanner.search(query, min_score)
Search ==
    /\ scanner.live
    /\ \E query \in Queries, min_score \in Thresholds :
         last' = [op |-> "search", query |-> query, min_score |-> min_score,
                  result |-> search(scanner, query, min_score)]
    /\ raised' = FALSE
    /\ UNCHANGED <<env, config, fs, scanner, scannedFs>>

\* scanner.filter_by_grade(grade)
FilterByGrade ==
    /\ scanner.live
    /\ \E grade \in Grades :
         last' = [op |-> "filter_by_grade", grade |-> grade,
                  result |-> filter_by_grade(scanner, grade)]
    /\ raised' = FALSE
    /\ UNCHANGED <<env, config, fs, scanner, scannedFs>>

\* scanner.filter_by_subject(subject)
FilterBySubject ==
    /\ scanner.live
    /\ \E subject \in Subjects :
         last' = [op |-> "filter_by_subject", subject |-> subject,
                  result |-> filter_by_subject(scanner, subject)]
    /\ raised' = FALSE
    /\ UNCHANGED <<env, config, fs, scanner, scannedFs>>

\* the outcome of course.save() on the course at index i of the catalog
Saved(i, course, mutated, r) ==
    /\ fs' = r.root
    /\ scanner' = [scanner EXCEPT !.courses[i] = r.course]
    /\ last' = [op |-> "save_course", course_path |-> course.course_path,
                title |-> course.title, mutated |-> mutated, result |-> r.result]
    /\ raised' = r.raised
    /\ UNCHANGED <<env, config, scannedFs>>

\* the course with the three metadata fields set
WithMetadata(course, m) ==
    [course EXCEPT !.metadata.title = m.title, !.metadata.description = m.description,
                   !.metadata.preview_image = m.preview_image]

NewTitles == {<<"n">>}
Descriptions == {NoneStr, <<"d">>}
Previews == {NoneStr, <<"preview.png">>}
Mutations == [title : NewTitles, description : Descriptions, preview_image : Previews]

\* a caller sets title, description and preview_image of course.metadata and
\* calls course.save()
MutateAndSaveCourse ==
    /\ scanner.live
    /\ \E i \in DOMAIN scanner.courses, m \in Mutations, io \in IoOutcomes :
         Saved(i, scanner.courses[i], m,
               Course_save(WithMetadata(scanner.courses[i], m), fs, env, config, io))

\* the course as CourseEditorDialog.save_course sets it from the form's metadata
WithEditorMetadata(course, updated_metadata) ==
    [course EXCEPT !.metadata = updated_metadata, !.title = updated_metadata.title,
                   !.collection_name = updated_metadata.collection_name]

EditorMetadata(course, m) ==
    [title |-> m.title, collection_name |-> course.collection_name,
     description |-> m.description, preview_image |-> m.preview_image]

\* CourseEditorDialog.save_course
EditorSaveCourse ==
    /\ scanner.live
    /\ \E i \in DOMAIN scanner.courses, m \in Mutations, io \in IoOutcomes :
         Saved(i, WithEditorMetadata(scanner.courses[i],
                                     EditorMetadata(scanner.courses[i], m)), m,
               Course_save(WithEditorMetadata(scanner.courses[i],
                                              EditorMetadata(scanner.courses[i], m)),
                           fs, env, config, io))

\* the catalog after display_courses(self.all_courses): all_courses is the
\* scanner's courses list itself, so the sort reorders the catalog
Displayed(cat) == [cat EXCEPT !.courses = display_courses(list_all_courses(cat))]

\* load_courses with r the scanner UnitScanner() gave or the exception it
\* raised; an exception leaves self.scanner as it was
Loaded(r) ==
    /\ raised' = r.raised
    /\ scanner' = IF r.raised THEN scanner ELSE Displayed(Catalog(r.value))
    /\ scannedFs' = IF r.raised THEN scannedFs ELSE fs
    /\ last' = [op |-> "load_courses", replaced |-> scanner]
    /\ UNCHANGED <<env, config, fs>>

\* UnitBrowserWidget.load_courses, which reload calls: a new scanner, its
\* lists taken, the courses displayed
LoadCourses == \E ord \in Orders(fs) : Loaded(UnitScanner(fs, env, config, ord))

\* the names a caller filters courses by: the collections, and names that
\* differ from one in case or are a prefix of it
CollectionArgs == {<<"collA">>, <<"drafts">>, <<"colla">>, <<"coll">>, <<"other">>}

\* a query returned result; shared says the result is a list of the scanner
Queried(op, arg, result, shared) ==
    /\ last' = [op |-> op, arg |-> arg, result |-> result, shared |-> shared]
    /\ raised' = FALSE
    /\ UNCHANGED <<env, config, fs, scanner, scannedFs>>

\* a filter_course_by_collection that keeps the filtered list as the catalog
FilterCourseByCollection_InPlace ==
    /\ scanner.live
    /\ \E name \in CollectionArgs :
         /\ last' = [op |-> "filter_course_by_collection", arg |-> name,
                     result |-> filter_course_by_collection(scanner, name),
                     shared |-> TRUE]
         /\ scanner' = [scanner EXCEPT
                          !.courses = filter_course_by_collection(scanner, name)]
    /\ raised' = FALSE
    /\ UNCHANGED <<env, config, fs, scannedFs>>

\* scanner.filter_course_by_collection(name)
FilterCourseByCollection ==
    /\ scanner.live
    /\ \E name \in CollectionArgs :
         Queried("filter_course_by_collection", name,
                 filter_course_by_collection(scanner, name), FALSE)

\* scanner.list_all_lessons()
ListAllLessons ==
    /\ scanner.live
    /\ Queried("list_all_lessons", None, list_all_lessons(scanner), FALSE)

\* scanner.list_all_courses()
ListAllCourses ==
    /\ scanner.live
    /\ Queried("list_all_courses", None, list_all_courses(scanner), TRUE)

\* scanner.list_all_collections()
ListAllCollections ==
    /\ scanner.live
    /\ Queried("list_all_collections", None, list_all_collections(scanner), FALSE)

\* on_collection_changed: display_courses on the list a query returned, either
\* the scanner's own courses list or the new list a filter built
DisplayCourses ==
    /\ scanner.live
    /\ last.op \in {"list_all_courses", "filter_course_by_collection"}
    /\ scanner' = IF last.shared
                  THEN [scanner EXCEPT !.courses = display_courses(last.result)]
                  ELSE scanner
    /\ last' = [op |-> "display_courses", arg |-> last.op,
                result |-> display_courses(last.result), shared |-> last.shared]
    /\ raised' = FALSE
    /\ UNCHANGED <<env, config, fs, scannedFs>>

\* f without the key x
Without(f, x) == [y \in DOMAIN f \ {x} |-> f[y]]

\* the tree was changed outside the program
Changed(root) ==
    /\ fs' = root
    /\ last' = [op |-> "fs_change"]
    /\ UNCHANGED <<env, config, scanner, scannedFs, raised>>

\* a collection directory is removed
RemoveCollection ==
    /\ fs.exists
    /\ \E c \in DOMAIN fs.colls : Changed([fs EXCEPT !.colls = Without(@, c)])

\* a course directory is removed
RemoveCourse ==
    /\ fs.exists
    /\ \E c \in DOMAIN fs.colls : \E k \in DOMAIN fs.colls[c].courses :
         Changed([fs EXCEPT !.colls[c].courses = Without(@, k)])

\* a lesson directory is removed
RemoveLesson ==
    /\ fs.exists
    /\ \E c \in DOMAIN fs.colls : \E k \in DOMAIN fs.colls[c].courses :
         \E l \in DOMAIN fs.colls[c].courses[k].lessons :
             Changed([fs EXCEPT !.colls[c].courses[k].lessons = Without(@, l)])

\* a lesson directory lessonE with a content file is created in a course
AddLesson ==
    /\ fs.exists
    /\ \E c \in DOMAIN fs.colls : \E k \in DOMAIN fs.colls[c].courses :
         /\ "lessonE" \notin DOMAIN fs.colls[c].courses[k].lessons
         /\ Changed([fs EXCEPT !.colls[c].courses[k].lessons =
                        ("lessonE" :> LessonDir({"content.md"}, NoFile, NoFile)) @@ @])

\* the permissions of a course directory are changed so that it cannot be
\* listed (chmod 000)
DenyCourse ==
    /\ fs.exists
    /\ \E c \in DOMAIN fs.colls : \E k \in DOMAIN fs.colls[c].courses :
         /\ ~fs.colls[c].courses[k].denied
         /\ Changed([fs EXCEPT !.colls[c].courses[k].denied = TRUE])

\* course.save() on a course of the catalog
SaveCourse ==
    /\ scanner.live
    /\ \E i \in DOMAIN scanner.courses, io \in IoOutcomes :
         Saved(i, scanner.courses[i], scanner.courses[i].metadata,
               Course_save(scanner.courses[i], fs, env, config, io))

\* the state after a save() that changes no object of the catalog
SavedAs(op, path, r) ==
    /\ fs' = r.root
    /\ last' = [op |-> op, path |-> path, result |-> r.result]
    /\ raised' = r.raised
    /\ UNCHANGED <<env, config, scanner, scannedFs>>

\* lesson.save() on a lesson of the catalog
SaveLesson ==
    /\ scanner.live
    /\ \E i \in DOMAIN list_all_lessons(scanner), io \in IoOutcomes :
         SavedAs("save_lesson", list_all_lessons(scanner)[i].lesson_path,
                 Lesson_save(list_all_lessons(scanner)[i], fs, env, config, io))

\* courses a caller constructs: without a path, without metadata, and at a
\* course directory that may not exist yet
NewCourses(e, cfg) ==
    { Course(<<"n">>, <<"collA">>, None, None),
      [Course(<<"n">>, <<"collA">>,
              Child(Child(get_scan_path(e, cfg), "collA"), "courseD"), None)
         EXCEPT !.metadata = None],
      Course(<<"n">>, <<"collA">>,
             Child(Child(get_scan_path(e, cfg), "collA"), "courseD"), None) }

\* course.save() on a course the caller constructed
SaveNewCourse ==
    \E course \in NewCourses(env, config), io \in IoOutcomes :
        SavedAs("save_new_course", course.course_path,
                Course_save(course, fs, env, config, io))

\* lessons a caller constructs: without a path, without metadata, and at a
\* lesson directory that may not exist yet
NewLessons(e, cfg) ==
    { Lesson(<<"n">>, NoneStr, NoneStr, None),
      [Lesson(<<"n">>, NoneStr,
              as_posix(Child(Child(Child(get_scan_path(e, cfg), "collA"), "courseB"),
                             "lessonE")), None)
         EXCEPT !.metadata = None],
      Lesson(<<"n">>, NoneStr,
             as_posix(Child(Child(Child(get_scan_path(e, cfg), "collA"), "courseB"),
                            "lessonE")), None) }

\* lesson.save() on a lesson the caller constructed
SaveNewLesson ==
    \E lesson \in NewLessons(env, config), io \in IoOutcomes :
        SavedAs("save_new_lesson", lesson.lesson_path,
                Lesson_save(lesson, fs, env, config, io))

\* the lesson with title, min_grade and subjects of its metadata set
WithLessonMetadata(lesson, m) ==
    [lesson EXCEPT !.metadata.title = m.title, !.metadata.min_grade = m.min_grade,
                   !.metadata.subjects = m.subjects]

LessonEdits ==
    { [title |-> <<"n">>, min_grade |-> 3, subjects |-> <<Music>>],
      [title |-> <<"n">>, min_grade |-> 0, subjects |-> <<>>] }

\* the sidecars of the lesson directory a lesson was loaded from
SidecarsAt(root, lesson, e, cfg) ==
    LET key == LessonKey(lesson.lesson_path, e, cfg)
        dir == root.colls[key[1]].courses[key[2]].lessons[key[3]]
    IN [lesson_yml |-> dir.lesson_yml, metadata_yml |-> dir.metadata_yml]

\* the outcome r of lesson.save() on the edited lesson j of course i
EditedAndSaved(i, j, lesson, before, r) ==
    /\ fs' = r.root
    /\ scanner' = [scanner EXCEPT !.courses[i].lessons[j] = lesson]
    /\ last' = [op |-> "edit_save_lesson", lesson_path |-> lesson.lesson_path,
                metadata |-> lesson.metadata, before |-> before, result |-> r.result]
    /\ raised' = r.raised
    /\ UNCHANGED <<env, config, scannedFs>>

\* a caller sets fields of lesson.metadata of a cataloged lesson and calls
\* lesson.save()
EditAndSaveLesson ==
    /\ scanner.live
    /\ \E i \in DOMAIN scanner.courses :
         \E j \in DOMAIN scanner.courses[i].lessons, m \in LessonEdits, io \in IoOutcomes :
             EditedAndSaved(i, j, WithLessonMetadata(scanner.courses[i].lessons[j], m),
                            SidecarsAt(fs, scanner.courses[i].lessons[j], env, config),
                            Lesson_save(WithLessonMetadata(scanner.courses[i].lessons[j], m),
                                        fs, env, config, io))

\* a property of a cataloged lesson was read: r is its value or the exception
PropertyRead(op, lesson, r) ==
    /\ last' = [op |-> op, lesson |-> lesson, result |-> r]
    /\ raised' = r.raised
    /\ UNCHANGED <<env, config, fs, scanner, scannedFs>>

\* lesson.relative_markdown_path of a cataloged lesson
RelativeMarkdownPath ==
    /\ scanner.live
    /\ \E i \in DOMAIN list_all_lessons(scanner) :
         PropertyRead("relative_markdown_path", list_all_lessons(scanner)[i],
                      relative_markdown_path(list_all_lessons(scanner)[i], env, config))

\* lesson.tutorial_url of a cataloged lesson
TutorialUrl ==
    /\ scanner.live
    /\ \E i \in DOMAIN list_all_lessons(scanner) :
         PropertyRead("tutorial_url", list_all_lessons(scanner)[i],
                      tutorial_url(list_all_lessons(scanner)[i], env, config))

Next == Scan \/ FilterByGrade \/ FilterBySubject

\* scans and filters of trees every directory of which can be read
Spec == Init /\ [][Next]_vars

\* the same operations when directories cannot be listed
SpecIO == InitIn(IOWorlds) /\ [][Next]_vars

NextSearch == Scan \/ Search

\* scans and searches
SpecSearch == InitIn(SearchWorlds) /\ [][NextSearch]_vars

NextSave == Scan \/ MutateAndSaveCourse \/ EditorSaveCourse

\* scans and saves of courses
SpecSave == InitIn(SaveWorlds) /\ [][NextSave]_vars

NextSaveIO ==
    Scan \/ SaveCourse \/ SaveLesson \/ SaveNewCourse \/ SaveNewLesson

\* save() of courses and lessons under every outcome of the system calls
SpecSaveIO == InitIn(SaveIOWorlds) /\ [][NextSaveIO]_vars

NextLessonSave == Scan \/ EditAndSaveLesson

\* scans, and edits and saves of cataloged lessons
SpecLessonSave == InitIn(LessonSaveWorlds) /\ [][NextLessonSave]_vars

NextPaths == Scan \/ RelativeMarkdownPath \/ TutorialUrl

\* scans and the path properties of the cataloged lessons
SpecPaths == InitIn(PathWorlds) /\ [][NextPaths]_vars

NextReload ==
    \/ LoadCourses
    \/ RemoveCollection \/ RemoveCourse \/ RemoveLesson \/ AddLesson \/ DenyCourse

\* reloads of a tree that changes between them
SpecReload == InitIn(ReloadWorlds) /\ [][NextReload]_vars

NextViews ==
    \/ Scan
    \/ Search \/ FilterByGrade \/ FilterBySubject \/ FilterCourseByCollection
    \/ ListAllLessons \/ ListAllCourses \/ ListAllCollections
    \/ DisplayCourses

\* the queries of a scanner and the browser's use of the lists they return
SpecViews == InitIn(ViewWorlds) /\ [][NextViews]_vars

----------------------------------------------------------------------------
(* Vocabulary of the properties: the tree and the catalog, named by path   *)

\* the scan root R as a posix string, written out for each configuration
RootStr ==
    IF env = "development" THEN <<"OER-materials">>
    ELSE IF config.unit_root_path = DefaultUnitRoot
    THEN <<"/", "home", "/", "user", "/", ".local", "/", "share", "/",
           "learning-portal", "/", "courses">>
    ELSE <<"/", "srv", "/", "courses">>

RootIsAbsolute == RootStr[1] = "/"
RootParts == SelectSeq(RootStr, LAMBDA t : t # "/")

\* R/c/k as a Path and R/c/k/l as a posix string
CoursePathOf(c, k) == [abs |-> RootIsAbsolute, parts |-> RootParts \o <<c, k>>]
LessonPathStr(c, k, l) == RootStr \o <<"/", c, "/", k, "/", l>>

\* the course and lesson directories of the tree, by name
CourseKeys == {<<c, k>> : c \in DOMAIN fs.colls, k \in CourseNamesOf(fs)} \cap
              {ck \in CollNames \X CourseNames : ck[2] \in DOMAIN fs.colls[ck[1]].courses}
CourseDirAt(ck) == fs.colls[ck[1]].courses[ck[2]]
LessonKeys ==
    {ckl \in CourseKeys \X LessonNames : ckl[2] \in DOMAIN CourseDirAt(ckl[1]).lessons}
LessonDirAt(ckl) == CourseDirAt(ckl[1]).lessons[ckl[2]]

\* the sidecar file the loader reads in a lesson directory
ActiveSidecar(d) == IF d.lesson_yml.kind # "absent" THEN d.lesson_yml ELSE d.metadata_yml
SidecarFails(d) ==
    \/ ActiveSidecar(d).kind = "corrupt"
    \/ ActiveSidecar(d).kind = "map" /\ "title" \notin DOMAIN ActiveSidecar(d).map
SidecarParses(d) ==
    ActiveSidecar(d).kind = "map" /\ "title" \in DOMAIN ActiveSidecar(d).map
NoSidecar(d) == d.lesson_yml.kind = "absent" /\ d.metadata_yml.kind = "absent"

\* the cataloged courses and lessons
CatalogCourses == IF scanner.live THEN Values(scanner.courses) ELSE {}
CatalogLessons == IF scanner.live THEN Values(list_all_lessons(scanner)) ELSE {}
CoursesAt(ck) == {course \in CatalogCourses : course.course_path = CoursePathOf(ck[1], ck[2])}
LessonsAt(ckl) ==
    {lesson \in CatalogLessons :
        lesson.lesson_path = LessonPathStr(ckl[1][1], ckl[1][2], ckl[2])}

\* the state right after a scan that returned
Scanned == last.op = "scan" /\ ~raised /\ scanner.live

----------------------------------------------------------------------------
(* C1 *)

\* every lesson directory of the course holds a markdown file and exactly one
\* of them has a sidecar that fails to parse
OneCorruptSidecar(ck) ==
    /\ \A l \in DOMAIN CourseDirAt(ck).lessons : CourseDirAt(ck).lessons[l].md # {}
    /\ Cardinality({l \in DOMAIN CourseDirAt(ck).lessons :
                       SidecarFails(CourseDirAt(ck).lessons[l])}) = 1

\* C1: a scan of a course directory with N lesson directories, each with a
\* markdown file and exactly one with a sidecar that fails to parse, does not
\* raise, and the course's lesson list holds exactly the other N-1 lessons.
C1_PartialFailureIsolation ==
    last.op = "scan" =>
        \A ck \in CourseKeys :
            OneCorruptSidecar(ck) =>
                /\ ~raised
                /\ Cardinality(CoursesAt(ck)) = 1
                /\ \A course \in CoursesAt(ck) :
                     /\ Len(course.lessons) = Cardinality(DOMAIN CourseDirAt(ck).lessons) - 1
                     /\ {lesson.lesson_path : lesson \in Values(course.lessons)}
                        = {LessonPathStr(ck[1], ck[2], l) :
                             l \in {x \in DOMAIN CourseDirAt(ck).lessons :
                                      ~SidecarFails(CourseDirAt(ck).lessons[x])}}

\* a scanned course of two or more lesson directories, one corrupt, one loaded
C1_Witness ==
    /\ Scanned
    /\ \E ck \in CourseKeys :
         /\ OneCorruptSidecar(ck)
         /\ Cardinality(DOMAIN CourseDirAt(ck).lessons) >= 2
         /\ \E course \in CoursesAt(ck) : Len(course.lessons) >= 1

----------------------------------------------------------------------------
(* C2 *)

\* C2: no failure while loading one collection, course or lesson escapes the
\* construction of a UnitScanner: it never raises.
C2_NoErrorEscapes == last.op = "scan" => ~raised

----------------------------------------------------------------------------
(* C3, C4 *)

\* C3: filter_by_grade(max_grade) returns exactly the cataloged lessons whose
\* metadata.min_grade <= max_grade, in list_all_lessons order.
C3_FilterByGrade ==
    last.op = "filter_by_grade" =>
        last.result = SelectSeq(list_all_lessons(scanner),
                          LAMBDA lesson : /\ lesson.metadata # None
                                          /\ lesson.metadata.min_grade <= last.grade)

\* C4: filter_by_subject(subject) returns exactly the cataloged lessons whose
\* metadata.subjects contains subject.
C4_FilterBySubject ==
    last.op = "filter_by_subject" =>
        last.result = SelectSeq(list_all_lessons(scanner),
                          LAMBDA lesson : /\ lesson.metadata # None
                                          /\ Contains(lesson.metadata.subjects, last.subject))

----------------------------------------------------------------------------
(* C5 *)

\* a lesson directory with a markdown file and no sidecar
OnlyContent(ckl) == LessonDirAt(ckl).md # {} /\ NoSidecar(LessonDirAt(ckl))

\* the title "<course-dir> - <lesson-dir>"
FallbackTitle(ckl) == <<ckl[1][2], " - ", ckl[2]>>

\* the metadata LessonMetadata(title=...) holds: every other field at its default
DefaultLessonMetadata(title) ==
    [title |-> title, min_grade |-> 0, subjects |-> <<>>,
     markdown_file |-> NoneStr, preview_image |-> NoneStr]

\* C5 as amended: a lesson directory with a markdown file and no sidecar yields a
\* lesson titled "<course-dir> - <lesson-dir>" whose metadata is the default
\* LessonMetadata made from that title (min_grade 0, no subjects, no markdown_file).
C5_FallbackSynthesis ==
    Scanned =>
        \A ckl \in LessonKeys :
            OnlyContent(ckl) =>
                /\ Cardinality(LessonsAt(ckl)) = 1
                /\ \A lesson \in LessonsAt(ckl) :
                     /\ lesson.title = FallbackTitle(ckl)
                     /\ lesson.metadata = DefaultLessonMetadata(FallbackTitle(ckl))

\* C5 as claimed: the lesson's metadata is absent (None)
C5_MetadataAbsent ==
    Scanned =>
        \A ckl \in LessonKeys :
            OnlyContent(ckl) =>
                /\ Cardinality(LessonsAt(ckl)) = 1
                /\ \A lesson \in LessonsAt(ckl) :
                     /\ lesson.title = FallbackTitle(ckl)
                     /\ lesson.metadata = None

\* a scanned tree with a cataloged lesson that has no sidecar
C5_Witness ==
    /\ Scanned
    /\ \E ckl \in LessonKeys : OnlyContent(ckl) /\ LessonsAt(ckl) # {}

----------------------------------------------------------------------------
(* C6 *)

\* the sidecar of the directory parses and sets markdown_file
SetsMarkdownFile(d) ==
    /\ SidecarParses(d)
    /\ "markdown_file" \in DOMAIN ActiveSidecar(d).map
    /\ ActiveSidecar(d).map.markdown_file # <<>>

\* the files content discovery may choose: README.md, else any *.md file
Discoverable(d) == IF "README.md" \in d.md THEN {"README.md"} ELSE d.md

\* C6: when the sidecar sets markdown_file = F and the directory holds the
\* canonical content file, content_path is <lesson_dir>/F and not the canonical
\* file; when markdown_file is not set, content_path is the discovered file.
C6_MarkdownFileOverride ==
    Scanned =>
        \A ckl \in LessonKeys :
            (SidecarParses(LessonDirAt(ckl)) /\ LessonDirAt(ckl).md # {}) =>
                /\ Cardinality(LessonsAt(ckl)) = 1
                /\ \A lesson \in LessonsAt(ckl) :
                     IF SetsMarkdownFile(LessonDirAt(ckl))
                     THEN /\ lesson.content_path
                               = lesson.lesson_path \o <<"/">>
                                 \o ActiveSidecar(LessonDirAt(ckl)).map.markdown_file
                          /\ "README.md" \in LessonDirAt(ckl).md
                               => lesson.content_path # lesson.lesson_path \o <<"/", "README.md">>
                     ELSE \E f \in Discoverable(LessonDirAt(ckl)) :
                            lesson.content_path = lesson.lesson_path \o <<"/", f>>

\* a cataloged lesson whose sidecar names intro.md beside the canonical README.md
C6_Witness ==
    /\ Scanned
    /\ \E ckl \in LessonKeys :
         /\ SetsMarkdownFile(LessonDirAt(ckl))
         /\ "README.md" \in LessonDirAt(ckl).md
         /\ \E lesson \in LessonsAt(ckl) :
              lesson.content_path = lesson.lesson_path \o <<"/", "intro.md">>

----------------------------------------------------------------------------
(* C7 *)

\* the lesson directories of each course, in catalog order
LessonOrder(cat) ==
    {<<course.course_path, [i \in DOMAIN course.lessons |-> course.lessons[i].lesson_path]>> :
        course \in Values(cat.courses)}

\* the two catalogs agree in entity counts, titles, content paths and lesson order
SameCatalog(a, b) ==
    /\ Len(a.collections) = Len(b.collections)
    /\ Len(a.courses) = Len(b.courses)
    /\ Len(list_all_lessons(a)) = Len(list_all_lessons(b))
    /\ {c.title : c \in Values(a.collections)} = {c.title : c \in Values(b.collections)}
    /\ {c.title : c \in Values(a.courses)} = {c.title : c \in Values(b.courses)}
    /\ {l.title : l \in Values(list_all_lessons(a))}
       = {l.title : l \in Values(list_all_lessons(b))}
    /\ {l.content_path : l \in Values(list_all_lessons(a))}
       = {l.content_path : l \in Values(list_all_lessons(b))}
    /\ LessonOrder(a) = LessonOrder(b)

\* C7: a second scan of an unchanged tree gives a catalog with the same counts,
\* titles, content paths and lesson order as the first, whatever the orders in
\* which the filesystem enumerates the directories.
C7_IdempotentRescan ==
    [][(scanner.live /\ scannedFs = fs /\ last'.op = "scan" /\ ~raised')
          => SameCatalog(scanner, scanner')]_vars

----------------------------------------------------------------------------
(* C8 *)

\* the course directory a saved course was written to
SavedKey == <<last.course_path.parts[Len(last.course_path.parts) - 1],
              last.course_path.parts[Len(last.course_path.parts)]>>

\* the course the loader makes of the saved course directory
Reloaded(ord) == _load_course(CourseDirAt(SavedKey), last.course_path, <<SavedKey[1]>>, ord)

\* the reloaded course r carries the title and the mutated description and image
ReloadGives(r, title, mutated) ==
    /\ ~r.raised
    /\ r.value.title = title
    /\ r.value.metadata.description = mutated.description
    /\ r.value.metadata.preview_image = mutated.preview_image

\* C8 as amended: after the metadata's title, description and preview_image are
\* set and save() returned True, reloading the course directory gives a course
\* with the mutated description and preview_image, and with the title the
\* Course object had when save() was called (save() overwrites metadata.title).
C8_RoundTripCourseTitle ==
    (last.op = "save_course" /\ last.result) =>
        \A ord \in Orders(fs) : ReloadGives(Reloaded(ord), last.title, last.mutated)

\* C8 as claimed: the reloaded title equals the mutated metadata title
C8_RoundTripMetadataTitle ==
    (last.op = "save_course" /\ last.result) =>
        \A ord \in Orders(fs) : ReloadGives(Reloaded(ord), last.mutated.title, last.mutated)

\* a successful save of a course whose title differs from the mutated metadata
\* title, with a description and a preview image set
C8_Witness ==
    /\ last.op = "save_course" /\ last.result
    /\ last.title # last.mutated.title
    /\ last.mutated.description = <<"d">>
    /\ last.mutated.preview_image = <<"preview.png">>
    /\ CourseDirAt(SavedKey).course_yml.kind = "map"

----------------------------------------------------------------------------
(* C9 *)

\* C9: a cataloged lesson whose content file is R/c/k/l/f has the
\* relative_markdown_path c/k/l/f, for a relative and for an absolute root R.
C9_RelativeMarkdownPath ==
    Scanned =>
        \A lesson \in CatalogLessons :
            \A c \in CollNames, k \in CourseNames, l \in LessonNames, f \in MdNames :
                lesson.content_path = RootStr \o <<"/", c, "/", k, "/", l, "/", f>>
                    => relative_markdown_path(lesson, env, config)
                         = Return(<<c, "/", k, "/", l, "/", f>>)

\* a lesson cataloged under the relative development root
C9_Witness ==
    /\ Scanned
    /\ env = "development"
    /\ \E lesson \in CatalogLessons :
         lesson.content_path = <<"OER-materials", "/", "collA", "/", "courseB", "/",
                                 "lessonC", "/", "content.md">>

----------------------------------------------------------------------------
(* C10 *)

\* the lessons of a result list
Returned(result) == Values(result)

\* C10: search returns exactly the lessons whose score is >= min_score, and
\* every lesson returned for a threshold b is returned for every threshold a <= b.
C10_SearchMonotone ==
    last.op = "search" =>
        /\ Returned(last.result)
           = {lesson \in CatalogLessons :
                partial_ratio(lower(last.query), lower(lesson.title)) >= last.min_score}
        /\ Len(last.result) = Cardinality(Returned(last.result))
        /\ \A a \in Thresholds :
             a <= last.min_score
                => Returned(last.result) \subseteq Returned(search(scanner, last.query, a))

\* a search at threshold 60 that returns a lesson and leaves one out
C10_Witness ==
    /\ last.op = "search"
    /\ last.min_score = 60
    /\ last.result # <<>>
    /\ Returned(last.result) # CatalogLessons
    /\ Returned(search(scanner, last.query, 0)) = CatalogLessons

----------------------------------------------------------------------------
(* C11 *)

\* the position of a lesson in the catalog: course-list order, then the
\* course's lesson order
CatalogIndex(lesson) ==
    CHOOSE n \in DOMAIN list_all_lessons(scanner) : list_all_lessons(scanner)[n] = lesson

\* the scores of a result list, in its order
ScoresOf(result, query) == [i \in DOMAIN result |-> Score(query, result[i])]

\* the scores never increase, and equal scores keep catalog order
OrderedByScore(result, scores) ==
    \A i, j \in DOMAIN result :
        i < j => /\ scores[i] >= scores[j]
                 /\ scores[i] = scores[j]
                      => CatalogIndex(result[i]) < CatalogIndex(result[j])

\* C11: the results of search are in non-increasing order of score, and
\* lessons of equal score appear in catalog order.
C11_SearchOrder ==
    last.op = "search" => OrderedByScore(last.result, ScoresOf(last.result, last.query))

\* a search whose sort moved a lesson forward and that returned two lessons of
\* equal score
C11_Witness ==
    /\ last.op = "search"
    /\ Len(last.result) = 3
    /\ Score(last.query, last.result[1]) = Score(last.query, last.result[2])
    /\ Score(last.query, last.result[2]) > Score(last.query, last.result[3])
    /\ CatalogIndex(last.result[3]) < CatalogIndex(last.result[2])

----------------------------------------------------------------------------
(* C12 *)

\* every query on the catalog cat returns the empty list
EveryQueryEmpty(cat) ==
    /\ list_all_lessons(cat) = <<>>
    /\ \A query \in Queries, min_score \in Thresholds : search(cat, query, min_score) = <<>>
    /\ \A subject \in Subjects : filter_by_subject(cat, subject) = <<>>
    /\ \A grade \in Grades : filter_by_grade(cat, grade) = <<>>
    /\ \A name \in CollNames : filter_course_by_collection(cat, <<name>>) = <<>>

\* C12: when the scan root does not exist, constructing the scanner returns
\* normally and the catalog is empty: no courses, no collections, no lessons,
\* and every search and filter returns the empty list.
C12_MissingRoot ==
    (~fs.exists /\ last.op # "none") =>
        /\ ~raised
        /\ scanner.live
        /\ scanner.courses = <<>>
        /\ scanner.collections = <<>>
        /\ EveryQueryEmpty(scanner)

\* a scanner constructed where the scan root is missing
C12_Witness == ~fs.exists /\ last.op = "scan" /\ scanner.live

----------------------------------------------------------------------------
(* C13 *)

\* the list xs names each element of the set S exactly once, by key
ExactlyOnce(xs, S) == Len(xs) = Cardinality(S) /\ Values(xs) = S

\* the catalog holds exactly the collection, course and lesson directories of
\* the tree, each once
CatalogMatchesDisk ==
    /\ ExactlyOnce([i \in DOMAIN scanner.collections |->
                       scanner.collections[i].unique_collection_name],
                   {<<c>> : c \in DOMAIN fs.colls})
    /\ ExactlyOnce([i \in DOMAIN scanner.courses |-> scanner.courses[i].course_path],
                   {CoursePathOf(ck[1], ck[2]) : ck \in CourseKeys})
    /\ ExactlyOnce([i \in DOMAIN list_all_lessons(scanner) |->
                       list_all_lessons(scanner)[i].lesson_path],
                   {LessonPathStr(ckl[1][1], ckl[1][2], ckl[2]) : ckl \in LessonKeys})

----------------------------------------------------------------------------
(* C14 *)

SaveOps == {"save_course", "save_lesson", "save_new_course", "save_new_lesson"}

\* C14: save() on a Course or a Lesson never raises, whatever is unset in the
\* entity and whatever the outcome of the system calls: it returns False on
\* failure and True only when the sidecar was written.
C14_SaveNeverRaises == last.op \in SaveOps => ~raised

----------------------------------------------------------------------------
(* C15 *)

QueryOps ==
    {"search", "filter_by_subject", "filter_by_grade", "filter_course_by_collection",
     "list_all_lessons", "list_all_courses", "list_all_collections"}

\* C15: no call of search, filter_by_subject, filter_by_grade,
\* filter_course_by_collection, list_all_lessons, list_all_courses or
\* list_all_collections changes the scanner's courses list, its collections
\* list or the lessons list of a course.
C15_QueriesDoNotMutate == [][last'.op \in QueryOps => scanner' = scanner]_vars

\* a filter by collection returned some of the courses of a catalog, and not all
C15_Witness ==
    /\ last.op = "filter_course_by_collection"
    /\ last.result # <<>>
    /\ Len(last.result) < Len(scanner.courses)
    /\ list_all_lessons(scanner) # <<>>

----------------------------------------------------------------------------
(* C16 *)

\* C16: the lists list_all_courses and list_all_collections return are
\* read-only views: when the caller sorts the returned list, as
\* display_courses does, the scanner's catalog keeps its contents and order,
\* and list_all_lessons still yields the lessons in scan order.
C16_ViewsAreReadOnly ==
    [][last'.op = "display_courses"
         => /\ scanner' = scanner
            /\ list_all_lessons(scanner') = list_all_lessons(scanner)]_vars

----------------------------------------------------------------------------
(* C17 *)

\* C17: get_relative_path of the cataloged course at R/c/k returns c/k when
\* the course path is absolute and the course path itself when it is
\* relative, and raises for no cataloged course.
C17_GetRelativePath ==
    Scanned =>
        \A ck \in CourseKeys : \A course \in CoursesAt(ck) :
            get_relative_path(course, config)
              = IF RootIsAbsolute THEN Return([abs |-> FALSE, parts |-> <<ck[1], ck[2]>>])
                ELSE Return(course.course_path)

----------------------------------------------------------------------------
(* C18 *)

RECURSIVE LessonCount(_, _)
\* the number of lessons of the first n courses
LessonCount(courses, n) ==
    IF n = 0 THEN 0 ELSE LessonCount(courses, n - 1) + Len(courses[n].lessons)

\* result is the lessons lists of the courses one after the other
IsConcatenation(result, courses) ==
    /\ Len(result) = LessonCount(courses, Len(courses))
    /\ \A i \in DOMAIN courses : \A j \in DOMAIN courses[i].lessons :
         result[LessonCount(courses, i - 1) + j] = courses[i].lessons[j]

\* C18: list_all_lessons returns the concatenation of the courses' lessons
\* lists, courses in catalog order and lessons in per-course order; its
\* length is the sum of the courses' lesson counts.
C18_ListAllLessons ==
    last.op = "list_all_lessons" => IsConcatenation(last.result, scanner.courses)

\* all lessons listed of a catalog of three courses, the first with two lessons
C18_Witness ==
    /\ last.op = "list_all_lessons"
    /\ Len(scanner.courses) = 3
    /\ Len(scanner.courses[1].lessons) = 2
    /\ Len(last.result) = 4

----------------------------------------------------------------------------
(* C19 *)

\* the position of a course in the catalog
CourseIndex(course) ==
    CHOOSE n \in DOMAIN scanner.courses : scanner.courses[n] = course

\* result lists, once each and in catalog order, the courses of the catalog
\* whose collection_name is name
ExactlyTheCoursesOf(result, name) ==
    /\ \A i \in DOMAIN result :
         /\ result[i] \in Values(scanner.courses)
         /\ result[i].collection_name = name
    /\ Len(result) =
         Cardinality({n \in DOMAIN scanner.courses : scanner.courses[n].collection_name = name})
    /\ \A i, j \in DOMAIN result : i < j => CourseIndex(result[i]) < CourseIndex(result[j])

\* C19: filter_course_by_collection(name) returns exactly the cataloged courses
\* whose collection_name equals name, in catalog order; a name that differs in
\* case or is only a prefix matches nothing, and a name matching no course
\* gives the empty list.
C19_FilterCourseByCollection ==
    last.op = "filter_course_by_collection" => ExactlyTheCoursesOf(last.result, last.arg)

\* the two courses of collA filtered from a catalog of three, where filtering
\* by colla and by coll gives nothing
C19_Witness ==
    /\ last.op = "filter_course_by_collection"
    /\ last.arg = <<"collA">>
    /\ Len(last.result) = 2
    /\ Len(scanner.courses) = 3
    /\ filter_course_by_collection(scanner, <<"colla">>) = <<>>
    /\ filter_course_by_collection(scanner, <<"coll">>) = <<>>

----------------------------------------------------------------------------
(* C20 *)

\* the place of a lesson's directory name in the alphabetical order of names
DirNameRank(lesson) ==
    CHOOSE n \in DOMAIN LessonNameSeq :
        <<LessonNameSeq[n]>> = PathName(PathOf(lesson.lesson_path))

\* C20: the lessons list of a loaded course holds only the lessons that
\* loaded and is sorted by lesson directory name, whatever the order in which
\* the filesystem enumerates the course directory.
C20_LessonsSortedByName ==
    Scanned =>
        \A course \in CatalogCourses :
            \A i, j \in DOMAIN course.lessons :
                i < j => DirNameRank(course.lessons[i]) < DirNameRank(course.lessons[j])

----------------------------------------------------------------------------
(* C21 *)

\* course.yml exists and is not valid YAML, or lacks title or collection_name
CourseYmlFails(k) ==
    \/ k.course_yml.kind = "corrupt"
    \/ /\ k.course_yml.kind = "map"
       /\ ~({"title", "collection_name"} \subseteq DOMAIN k.course_yml.map)

\* a lesson directory that gives a lesson: a markdown file, and no sidecar
\* that fails to parse
GivesLesson(d) == d.md # {} /\ ~SidecarFails(d)

\* C21: a course directory whose course.yml fails to parse, or lacks a required
\* field, still yields exactly one Course; its title is the course directory
\* name, its collection_name the collection directory name, and its lessons
\* are those of its lesson directories that load.
C21_MalformedCourseYml ==
    Scanned =>
        \A ck \in CourseKeys :
            CourseYmlFails(CourseDirAt(ck)) =>
                /\ Cardinality(CoursesAt(ck)) = 1
                /\ \A course \in CoursesAt(ck) :
                     /\ course.title = <<ck[2]>>
                     /\ course.collection_name = <<ck[1]>>
                     /\ {lesson.lesson_path : lesson \in Values(course.lessons)}
                        = {LessonPathStr(ck[1], ck[2], l) :
                             l \in {x \in DOMAIN CourseDirAt(ck).lessons :
                                      GivesLesson(CourseDirAt(ck).lessons[x])}}

\* a scanned tree with a course whose course.yml is not valid YAML and a course
\* whose course.yml lacks the title, each cataloged with its lessons
C21_Witness ==
    /\ Scanned
    /\ \E ck \in CourseKeys :
         /\ CourseDirAt(ck).course_yml.kind = "corrupt"
         /\ \E course \in CoursesAt(ck) : Len(course.lessons) = 1
    /\ \E ck \in CourseKeys :
         /\ CourseDirAt(ck).course_yml.kind = "map"
         /\ CourseYmlFails(CourseDirAt(ck))
         /\ \E course \in CoursesAt(ck) : Len(course.lessons) = 2

----------------------------------------------------------------------------
(* C22 *)

\* the *.md file names in alphabetical (code-point) order
MdNameOrder == <<"README.md", "content.md", "intro.md">>

\* the alphabetically first name of a set of *.md file names
FirstMd(S) == Enumerate(S, MdNameOrder)[1]

\* no README.md, two or more *.md files, and no markdown_file in the sidecar
SeveralMdFiles(d) ==
    /\ "README.md" \notin d.md
    /\ Cardinality(d.md) >= 2
    /\ ~SidecarFails(d)
    /\ ~SetsMarkdownFile(d)

\* C22: for a lesson directory without the canonical content file, with several
\* *.md files and no markdown_file in the sidecar, the content file chosen is
\* the alphabetically first *.md file, whatever the order in which the
\* filesystem enumerates the directory.
C22_FirstMdAlphabetically ==
    Scanned =>
        \A ckl \in LessonKeys :
            SeveralMdFiles(LessonDirAt(ckl)) =>
                \A lesson \in LessonsAt(ckl) :
                    lesson.content_path
                      = lesson.lesson_path \o <<"/", FirstMd(LessonDirAt(ckl).md)>>

----------------------------------------------------------------------------
(* C23 *)

\* C23: a lesson directory without any *.md file yields no lesson, with or
\* without a sidecar and even when the sidecar names a markdown_file; the
\* course holds lessons of the other lesson directories only.
C23_NoMarkdownNoLesson ==
    Scanned =>
        /\ \A ckl \in LessonKeys : LessonDirAt(ckl).md = {} => LessonsAt(ckl) = {}
        /\ \A ck \in CourseKeys : \A course \in CoursesAt(ck) :
              Len(course.lessons)
                <= Cardinality({l \in DOMAIN CourseDirAt(ck).lessons :
                                  CourseDirAt(ck).lessons[l].md # {}})

\* a scanned course with a lesson directory that has no *.md file and a
\* sidecar naming intro.md, beside a lesson directory that gave a lesson
C23_Witness ==
    /\ Scanned
    /\ \E ckl \in LessonKeys :
         /\ LessonDirAt(ckl).md = {}
         /\ SetsMarkdownFile(LessonDirAt(ckl))
         /\ LessonsAt(ckl) = {}
         /\ \E course \in CoursesAt(ckl[1]) : Len(course.lessons) = 1

----------------------------------------------------------------------------
(* C24 *)

\* C24: after a scan every lesson of the catalog has content_path and
\* lesson_path set, neither None nor empty: no lesson for which validate() is
\* false is in a course's lessons list.
C24_LessonsAreValid ==
    Scanned =>
        \A course \in CatalogCourses : \A i \in DOMAIN course.lessons :
            /\ course.lessons[i].content_path \notin {NoneStr, <<>>}
            /\ course.lessons[i].lesson_path \notin {NoneStr, <<>>}

\* a scanned catalog with a lesson loaded from a sidecar and a lesson
\* synthesized without one
C24_Witness ==
    /\ Scanned
    /\ \E ckl \in LessonKeys :
         SidecarParses(LessonDirAt(ckl)) /\ LessonsAt(ckl) # {}
    /\ \E ckl \in LessonKeys :
         NoSidecar(LessonDirAt(ckl)) /\ LessonsAt(ckl) # {}

----------------------------------------------------------------------------
(* C25 *)

\* the collection names recognized as writable
WritableNames == {<<"drafts">>, <<"private">>, <<"unpublished">>}

\* C25: a collection produced by a scan is writable if and only if its
\* directory name is drafts, private or unpublished.
C25_WritableBySpecialName ==
    Scanned =>
        \A i \in DOMAIN scanner.collections :
            scanner.collections[i].writable
              <=> scanner.collections[i].unique_collection_name \in WritableNames

----------------------------------------------------------------------------
(* C26 *)

\* the catalog's collections are the subdirectories of the scan root, one
\* each, titled and named by the directory
OneCollectionPerDirectory ==
    /\ Len(scanner.collections) = Cardinality(DOMAIN fs.colls)
    /\ {c.unique_collection_name : c \in Values(scanner.collections)}
       = {<<name>> : name \in DOMAIN fs.colls}
    /\ \A i \in DOMAIN scanner.collections :
         /\ scanner.collections[i].title = scanner.collections[i].unique_collection_name
         /\ scanner.collections[i].collection_path
              = [abs |-> RootIsAbsolute,
                 parts |-> RootParts \o scanner.collections[i].unique_collection_name]
    /\ \A i, j \in DOMAIN scanner.collections :
         scanner.collections[i].unique_collection_name
           = scanner.collections[j].unique_collection_name => i = j

\* the catalog's courses are the subdirectories of the collection
\* directories, one each
OneCoursePerDirectory ==
    /\ Len(scanner.courses) = Cardinality(CourseKeys)
    /\ \A ck \in CourseKeys : Cardinality(CoursesAt(ck)) = 1
    /\ \A i, j \in DOMAIN scanner.courses :
         scanner.courses[i].course_path = scanner.courses[j].course_path => i = j

\* C26: after a scan of an existing root the catalog holds exactly one
\* CourseCollection per subdirectory of the root, with title and
\* unique_collection_name equal to the directory name and pairwise distinct,
\* and exactly one Course per subdirectory of each collection directory;
\* entries that are not directories are ignored.
C26_OnePerDirectory ==
    (Scanned /\ fs.exists) => (OneCollectionPerDirectory /\ OneCoursePerDirectory)

\* a scanned root with a file and two collection directories, one of them
\* holding a file and two course directories
C26_Witness ==
    /\ Scanned
    /\ fs.exists
    /\ fs.files # {}
    /\ Len(scanner.collections) = 2
    /\ \E c \in DOMAIN fs.colls :
         fs.colls[c].files # {} /\ Cardinality(DOMAIN fs.colls[c].courses) = 2
    /\ Len(scanner.courses) = 3

----------------------------------------------------------------------------
(* C27 *)

\* the lessons a catalog holds for a lesson directory
LessonsOf(cat, lesson_path) ==
    {lesson \in Values(list_all_lessons(cat)) : lesson.lesson_path = lesson_path}

\* C27: lesson.yml is read in preference to the legacy metadata.yml: when the
\* metadata of a lesson whose directory has a metadata.yml was edited and
\* save() returned True, the next scan loads that lesson with the saved
\* metadata values, not those of metadata.yml.
C27_SavedSidecarWins ==
    [][(/\ last.op = "edit_save_lesson"
        /\ last.result
        /\ FileExists(last.before.metadata_yml)
        /\ last'.op = "scan")
         => /\ ~raised'
            /\ Cardinality(LessonsOf(scanner', last.lesson_path)) = 1
            /\ \A lesson \in LessonsOf(scanner', last.lesson_path) :
                   /\ lesson.metadata = last.metadata
                   /\ lesson.title = last.metadata.title]_vars

\* a scan of a lesson directory that holds the legacy metadata.yml and a
\* lesson.yml that a save wrote (only a save gives the title n): the
\* cataloged lesson carries the saved values, which differ from metadata.yml
C27_Witness ==
    /\ Scanned
    /\ \E ckl \in LessonKeys :
         /\ LessonDirAt(ckl).metadata_yml.kind = "map"
         /\ LessonDirAt(ckl).lesson_yml.kind = "map"
         /\ \E lesson \in LessonsAt(ckl) :
              /\ lesson.metadata.title = <<"n">>
              /\ lesson.metadata.min_grade = 3
              /\ lesson.metadata.subjects = <<Music>>
              /\ LessonDirAt(ckl).metadata_yml.map.title # <<"n">>
              /\ LessonDirAt(ckl).metadata_yml.map.min_grade = 5

----------------------------------------------------------------------------
(* C28 *)

\* the entity has metadata, and the metadata's title is the entity's title
TitledByMetadata(entity) ==
    /\ entity.metadata # None
    /\ entity.metadata.title = entity.title

\* C28: after a scan every course and every lesson of the catalog has
\* metadata that is not None and whose title equals the entity's own title.
C28_MetadataTitle ==
    Scanned =>
        \A course \in CatalogCourses :
            /\ TitledByMetadata(course)
            /\ \A i \in DOMAIN course.lessons : TitledByMetadata(course.lessons[i])

\* a scanned catalog with a course titled by its course.yml, a course
\* synthesized from its directory, a lesson titled by its sidecar and a lesson
\* synthesized without one
C28_Witness ==
    /\ Scanned
    /\ \E ck \in CourseKeys : \E course \in CoursesAt(ck) :
         ~CourseYmlFails(CourseDirAt(ck)) /\ course.title = <<"a">>
    /\ \E ck \in CourseKeys : \E course \in CoursesAt(ck) :
         course.title = <<ck[2]>> /\ course.metadata.description = NoneStr
    /\ \E ckl \in LessonKeys : \E lesson \in LessonsAt(ckl) :
         SidecarParses(LessonDirAt(ckl)) /\ lesson.title = <<"a", "b">>
    /\ \E ckl \in LessonKeys : \E lesson \in LessonsAt(ckl) :
         NoSidecar(LessonDirAt(ckl)) /\ lesson.metadata.min_grade = 0

----------------------------------------------------------------------------
(* C29 *)

\* the collections of the catalog whose unique_collection_name is name
CollectionsNamed(name) ==
    {j \in DOMAIN scanner.collections :
        scanner.collections[j].unique_collection_name = name}

\* the collections of the catalog whose filtered course list holds the course
CollectionsHolding(course) ==
    {j \in DOMAIN scanner.collections :
        Contains(filter_course_by_collection(
                     scanner, scanner.collections[j].unique_collection_name),
                 course)}

RECURSIVE FilteredCount(_)
\* the courses filter_course_by_collection gives for the first n collections
FilteredCount(n) ==
    IF n = 0 THEN 0
    ELSE FilteredCount(n - 1)
         + Len(filter_course_by_collection(
                   scanner, scanner.collections[n].unique_collection_name))

\* C29: after a scan every course's collection_name is the name of the
\* collection directory that contains it, whatever its course.yml declares;
\* it is the unique_collection_name of exactly one collection, and the lists
\* filter_course_by_collection gives for the catalog's collections partition
\* the course list.
C29_CollectionPartition ==
    Scanned =>
        /\ \A ck \in CourseKeys : \A course \in CoursesAt(ck) :
              course.collection_name = <<ck[1]>>
        /\ \A i \in DOMAIN scanner.courses :
              /\ Cardinality(CollectionsNamed(scanner.courses[i].collection_name)) = 1
              /\ Cardinality(CollectionsHolding(scanner.courses[i])) = 1
        /\ FilteredCount(Len(scanner.collections)) = Len(scanner.courses)

\* a scanned catalog of two collections and three courses, one of them with a
\* course.yml that declares another collection_name than its directory
C29_Witness ==
    /\ Scanned
    /\ Len(scanner.collections) = 2
    /\ Len(scanner.courses) = 3
    /\ \E ck \in CourseKeys : \E course \in CoursesAt(ck) :
         /\ course.metadata.collection_name = <<"other">>
         /\ course.collection_name = <<"collA">>

----------------------------------------------------------------------------
(* C30 *)

\* path p lies below directory d
Below(p, d) == p.abs = d.abs /\ IsPrefix(d.parts, p.parts) /\ p.parts # d.parts

\* the lesson directory of the tree a cataloged lesson was loaded from
DirOfLesson(lesson) ==
    LET key == LessonKey(lesson.lesson_path, env, config)
    IN fs.colls[key[1]].courses[key[2]].lessons[key[3]]

\* content_path is lesson_path/f for a *.md file f of the lesson directory
NamesFileOfLessonDir(lesson) ==
    \E f \in DirOfLesson(lesson).md :
        lesson.content_path = lesson.lesson_path \o <<"/", f>>

\* C30: for every lesson of the catalog, content_path names a file under the
\* lesson's lesson_path directory, lesson_path lies under the scan root, and
\* relative_markdown_path and tutorial_url do not raise; this includes the
\* lessons whose sidecar supplies markdown_file.
C30_ContentUnderScanRoot ==
    /\ scanner.live =>
         \A lesson \in CatalogLessons :
             /\ Below(PathOf(lesson.lesson_path), get_scan_path(env, config))
             /\ Below(PathOf(lesson.content_path), PathOf(lesson.lesson_path))
             /\ NamesFileOfLessonDir(lesson)
             /\ ~relative_markdown_path(lesson, env, config).raised
             /\ ~tutorial_url(lesson, env, config).raised
    /\ last.op \in {"relative_markdown_path", "tutorial_url"} => ~raised

====
